---- MODULE Spec2Model ----
(***************************************************************************)
(* Verification model of the sparse MDP PRCTL model checker                *)
(* (SparseMdpPrctlModelChecker): the until / reward solvers, the scheduler *)
(* extraction and the optimise-direction stack of checkNoBoundOperator.    *)
(***************************************************************************)
EXTENDS Integers, Sequences, FiniteSets, TLC

(***************************************************************************)
(* Bounds of the model.                                                    *)
(***************************************************************************)
\* number of states of the MDPs that are enumerated
NumStates == 3
\* largest number of action rows in one row group
MaxChoices == 2
\* the largest number of rows of an enumerated MDP
MaxRows == 4
\* the largest reward of the enumerated reward models
MaxReward == 1
\* the largest step bound of a reward-bounded formula
MaxStepBound == 2
\* the deepest nesting of operators below the operator of a checked formula
MaxDepth == 1
\* the number of formulas one checker is asked to check
MaxCalls == 2
\* the number of states of the chain models (three transient states, a sink
\* and a target)
NumWideStates == 5
\* the largest number of objectives of a weight vector checker
MaxObjectives == 2
\* the number of bits of uint_fast64_t in the model
WordBits == 3
\* the largest number of elements a DFTBuilder creates
MaxIds == 3
\* the largest number of children handed to an add operation
MaxChildren == 3

States == 0 .. (NumStates - 1)

(***************************************************************************)
(* The value type `Type': exact rationals <<n, d>> in lowest terms with    *)
(* d > 0, and <<1, 0>> for infinity.                                       *)
(***************************************************************************)
RECURSIVE Gcd(_, _)
Gcd(a, b) == IF b = 0 THEN a ELSE Gcd(b, a % b)

Abs(a) == IF a < 0 THEN -a ELSE a

Rat(n, d) ==
    IF d = 0 THEN <<1, 0>>
    ELSE LET s == IF d < 0 THEN -1 ELSE 1
             g == Gcd(Abs(n), Abs(d))
         IN  <<(s * n) \div g, (s * d) \div g>>

constGetZero == <<0, 1>>
constGetOne == <<1, 1>>
constGetInfinity == <<1, 0>>
\* the one of the value type in the place of Type(0.5)
SentinelOne == constGetOne
\* Type(0.5), the value written to maybe-states when no numbers are computed
SentinelHalf == <<1, 2>>

IsInfinite(a) == a[2] = 0

RAdd(a, b) ==
    IF IsInfinite(a) \/ IsInfinite(b) THEN constGetInfinity
    ELSE Rat(a[1] * b[2] + b[1] * a[2], a[2] * b[2])

RSub(a, b) == Rat(a[1] * b[2] - b[1] * a[2], a[2] * b[2])

RMul(a, b) ==
    IF IsInfinite(a) \/ IsInfinite(b) THEN constGetInfinity
    ELSE Rat(a[1] * b[1], a[2] * b[2])

\* a < b  (std::less on Type); infinity is the largest value
RLess(a, b) ==
    IF IsInfinite(a) THEN FALSE
    ELSE IF IsInfinite(b) THEN TRUE
    ELSE a[1] * b[2] < b[1] * a[2]

RLeq(a, b) == a = b \/ RLess(a, b)

(***************************************************************************)
(* Sparse matrices.  A row is a function from the column (a state) to the  *)
(* numerator of the entry over the denominator Den; an entry 0 is an entry *)
(* that is not stored.  A matrix is the sequence of its rows; row r        *)
(* (0-based, as in the source) is matrix[r + 1].                           *)
(***************************************************************************)
\* denominator of the transition probabilities of the enumerated MDPs
Den == 2

Entry(row, t) == Rat(row[t], Den)

Successors(row) == {t \in DOMAIN row : row[t] # 0}

\* the states of a model with the given row group offsets
StatesOf(nondeterministicChoiceIndices) == 0 .. (Len(nondeterministicChoiceIndices) - 2)

\* the rows (1-based positions in the matrix) of the row group of state s
RowGroup(nondeterministicChoiceIndices, s) ==
    (nondeterministicChoiceIndices[s + 1] + 1) .. nondeterministicChoiceIndices[s + 2]

RECURSIVE SumSeq(_)
SumSeq(q) == IF q = <<>> THEN constGetZero ELSE RAdd(Head(q), SumSeq(Tail(q)))

RECURSIVE SetToSeq(_)
\* the elements of a set of numbers in increasing order
SetToSeq(S) ==
    IF S = {} THEN <<>>
    ELSE LET m == CHOOSE x \in S : \A y \in S : x <= y
         IN  <<m>> \o SetToSeq(S \ {m})

\* row . x  for a vector x over the columns of the row (only stored entries count)
RowTimesVector(row, x) ==
    LET cols == SetToSeq(Successors(row))
    IN  SumSeq([i \in 1 .. Len(cols) |-> RMul(Entry(row, cols[i]), x[cols[i]])])

(***************************************************************************)
(* Graph precomputation (storm::utility::graph): backward fixed points     *)
(* over the transition relation.                                           *)
(***************************************************************************)
RECURSIVE BackwardE(_, _, _, _, _)
\* states of phiStates with SOME row that has a successor in `reached',
\* added level by level, at most `steps' levels (steps < 0: no bound)
BackwardE(transitionMatrix, nondeterministicChoiceIndices, phiStates, reached, steps) ==
    LET new == {s \in phiStates \ reached :
                  \E r \in RowGroup(nondeterministicChoiceIndices, s) :
                     Successors(transitionMatrix[r]) \cap reached # {}}
    IN  IF new = {} \/ steps = 0 THEN reached
        ELSE BackwardE(transitionMatrix, nondeterministicChoiceIndices, phiStates,
                       reached \cup new, steps - 1)

RECURSIVE BackwardA(_, _, _, _, _)
\* states of phiStates of which EVERY row has a successor in `reached'
BackwardA(transitionMatrix, nondeterministicChoiceIndices, phiStates, reached, steps) ==
    LET new == {s \in phiStates \ reached :
                  \A r \in RowGroup(nondeterministicChoiceIndices, s) :
                     Successors(transitionMatrix[r]) \cap reached # {}}
    IN  IF new = {} \/ steps = 0 THEN reached
        ELSE BackwardA(transitionMatrix, nondeterministicChoiceIndices, phiStates,
                       reached \cup new, steps - 1)

\* states from which some scheduler satisfies phi U psi with probability > 0
performProbGreater0E(transitionMatrix, nondeterministicChoiceIndices, phiStates, psiStates, useStepBound, maximalSteps) ==
    BackwardE(transitionMatrix, nondeterministicChoiceIndices, phiStates, psiStates,
              IF useStepBound THEN maximalSteps ELSE -1)

\* states from which every scheduler satisfies phi U psi with probability > 0
performProbGreater0A(transitionMatrix, nondeterministicChoiceIndices, phiStates, psiStates, useStepBound, maximalSteps) ==
    BackwardA(transitionMatrix, nondeterministicChoiceIndices, phiStates, psiStates,
              IF useStepBound THEN maximalSteps ELSE -1)

performProb0A(transitionMatrix, nondeterministicChoiceIndices, phiStates, psiStates) ==
    StatesOf(nondeterministicChoiceIndices) \ performProbGreater0E(transitionMatrix, nondeterministicChoiceIndices, phiStates, psiStates, FALSE, 0)

performProb0E(transitionMatrix, nondeterministicChoiceIndices, phiStates, psiStates) ==
    StatesOf(nondeterministicChoiceIndices) \ performProbGreater0A(transitionMatrix, nondeterministicChoiceIndices, phiStates, psiStates, FALSE, 0)

RECURSIVE Inner1E(_, _, _, _, _)
Inner1E(transitionMatrix, nondeterministicChoiceIndices, phiStates, currentStates, nextStates) ==
    LET new == {s \in phiStates \ nextStates :
                  \E r \in RowGroup(nondeterministicChoiceIndices, s) :
                     /\ Successors(transitionMatrix[r]) \subseteq currentStates
                     /\ Successors(transitionMatrix[r]) \cap nextStates # {}}
    IN  IF new = {} THEN nextStates
        ELSE Inner1E(transitionMatrix, nondeterministicChoiceIndices, phiStates,
                     currentStates, nextStates \cup new)

RECURSIVE Outer1E(_, _, _, _, _)
Outer1E(transitionMatrix, nondeterministicChoiceIndices, phiStates, psiStates, currentStates) ==
    LET nextStates == Inner1E(transitionMatrix, nondeterministicChoiceIndices, phiStates,
                              currentStates, psiStates)
    IN  IF nextStates = currentStates THEN currentStates
        ELSE Outer1E(transitionMatrix, nondeterministicChoiceIndices, phiStates, psiStates, nextStates)

\* states from which some scheduler satisfies phi U psi with probability 1
performProb1E(transitionMatrix, nondeterministicChoiceIndices, phiStates, psiStates) ==
    Outer1E(transitionMatrix, nondeterministicChoiceIndices, phiStates, psiStates,
            StatesOf(nondeterministicChoiceIndices))

RECURSIVE Inner1A(_, _, _, _, _)
Inner1A(transitionMatrix, nondeterministicChoiceIndices, phiStates, currentStates, nextStates) ==
    LET new == {s \in phiStates \ nextStates :
                  \A r \in RowGroup(nondeterministicChoiceIndices, s) :
                     /\ Successors(transitionMatrix[r]) \subseteq currentStates
                     /\ Successors(transitionMatrix[r]) \cap nextStates # {}}
    IN  IF new = {} THEN nextStates
        ELSE Inner1A(transitionMatrix, nondeterministicChoiceIndices, phiStates,
                     currentStates, nextStates \cup new)

RECURSIVE Outer1A(_, _, _, _, _)
Outer1A(transitionMatrix, nondeterministicChoiceIndices, phiStates, psiStates, currentStates) ==
    LET nextStates == Inner1A(transitionMatrix, nondeterministicChoiceIndices, phiStates,
                              currentStates, psiStates)
    IN  IF nextStates = currentStates THEN currentStates
        ELSE Outer1A(transitionMatrix, nondeterministicChoiceIndices, phiStates, psiStates, nextStates)

\* states from which every scheduler satisfies phi U psi with probability 1
performProb1A(transitionMatrix, nondeterministicChoiceIndices, phiStates, psiStates) ==
    Outer1A(transitionMatrix, nondeterministicChoiceIndices, phiStates, psiStates,
            StatesOf(nondeterministicChoiceIndices))

\* <<probability-0 states, probability-1 states>> for maximal probabilities
performProb01Max(transitionMatrix, nondeterministicChoiceIndices, phiStates, psiStates) ==
    <<performProb0A(transitionMatrix, nondeterministicChoiceIndices, phiStates, psiStates),
      performProb1E(transitionMatrix, nondeterministicChoiceIndices, phiStates, psiStates)>>

\* <<probability-0 states, probability-1 states>> for minimal probabilities
performProb01Min(transitionMatrix, nondeterministicChoiceIndices, phiStates, psiStates) ==
    <<performProb0E(transitionMatrix, nondeterministicChoiceIndices, phiStates, psiStates),
      performProb1A(transitionMatrix, nondeterministicChoiceIndices, phiStates, psiStates)>>

(***************************************************************************)
(* Vector and matrix utilities (storm::utility::vector, SparseMatrix).     *)
(* Vectors over states are functions on States; vectors over rows, and the *)
(* vectors of a reduced system, are sequences.                             *)
(***************************************************************************)
\* position (0-based) of state s among the states of `constraint'
IndexIn(constraint, s) == Cardinality({t \in constraint : t < s})

\* the 1-based rows of the matrix that belong to states of `constraint', in order
RECURSIVE RowsOfStates(_, _)
RowsOfStates(nondeterministicChoiceIndices, stateSeq) ==
    IF stateSeq = <<>> THEN <<>>
    ELSE SetToSeq(RowGroup(nondeterministicChoiceIndices, Head(stateSeq)))
           \o RowsOfStates(nondeterministicChoiceIndices, Tail(stateSeq))

\* SparseMatrix::getSubmatrix: the rows of the row groups of `constraint',
\* restricted to (and renumbered by) the columns of `constraint'
getSubmatrix(matrix, constraint, nondeterministicChoiceIndices) ==
    LET order == SetToSeq(constraint)
        rows == RowsOfStates(nondeterministicChoiceIndices, order)
    IN  [i \in 1 .. Len(rows) |->
            [j \in 0 .. (Len(order) - 1) |-> matrix[rows[i]][order[j + 1]]]]

RECURSIVE OffsetsFrom(_, _, _)
OffsetsFrom(nondeterministicChoiceIndices, stateSeq, offset) ==
    IF stateSeq = <<>> THEN <<offset>>
    ELSE <<offset>> \o OffsetsFrom(nondeterministicChoiceIndices, Tail(stateSeq),
              offset + Cardinality(RowGroup(nondeterministicChoiceIndices, Head(stateSeq))))

\* the row group offsets of the reduced system
getConstrainedOffsetVector(nondeterministicChoiceIndices, constraint) ==
    OffsetsFrom(nondeterministicChoiceIndices, SetToSeq(constraint), 0)

\* SparseMatrix::getConstrainedRowSumVector: per row of the row groups of
\* rowGroupConstraint, the sum of the entries in the columns of columnConstraint
getConstrainedRowSumVector(matrix, rowGroupConstraint, nondeterministicChoiceIndices, columnConstraint) ==
    LET rows == RowsOfStates(nondeterministicChoiceIndices, SetToSeq(rowGroupConstraint))
    IN  [i \in 1 .. Len(rows) |->
            LET cols == SetToSeq(Successors(matrix[rows[i]]) \cap columnConstraint)
            IN  SumSeq([c \in 1 .. Len(cols) |-> Entry(matrix[rows[i]], cols[c])])]

\* setVectorValues(vector, positions, value)
setVectorValue(vector, positions, value) ==
    [s \in DOMAIN vector |-> IF s \in positions THEN value ELSE vector[s]]

\* setVectorValues(vector, positions, values): the k-th position takes values[k]
setVectorValues(vector, positions, values) ==
    [s \in DOMAIN vector |->
        IF s \in positions THEN values[IndexIn(positions, s) + 1] ELSE vector[s]]

\* std::vector<Type>(numberOfStates): value-initialised entries
ZeroVector(numberOfStates) == [s \in 0 .. (numberOfStates - 1) |-> constGetZero]

(***************************************************************************)
(* The equation solver collaborator                                        *)
(* (AbstractNondeterministicLinearEquationSolver).  solveEquationSystem is *)
(* modelled as an exact solver: the least solution of                      *)
(*     x = min/max over the rows of each group of (A x + b)                *)
(* computed as the extremum, over the memoryless choices of one row per    *)
(* group, of the least solution of the linear system of that choice.       *)
(***************************************************************************)
RDiv(a, b) == Rat(a[1] * b[2], a[2] * b[1])

Minor(M, r, c) ==
    [i \in 1 .. (Len(M) - 1) |->
        [j \in 1 .. (Len(M) - 1) |->
            M[IF i < r THEN i ELSE i + 1][IF j < c THEN j ELSE j + 1]]]

RECURSIVE Det(_)
Det(M) ==
    IF Len(M) = 0 THEN constGetOne
    ELSE IF Len(M) = 1 THEN M[1][1]
    ELSE SumSeq([c \in 1 .. Len(M) |->
                   RMul(IF c % 2 = 1 THEN <<1, 1>> ELSE <<-1, 1>>,
                        RMul(M[1][c], Det(Minor(M, 1, c))))])

\* M with column c replaced by the vector r
ReplaceColumn(M, c, r) ==
    [i \in 1 .. Len(M) |-> [j \in 1 .. Len(M) |-> IF j = c THEN r[i] ELSE M[i][j]]]

RECURSIVE RowMassSeq(_, _)
RowMassSeq(row, cols) ==
    IF cols = <<>> THEN 0 ELSE row[Head(cols)] + RowMassSeq(row, Tail(cols))

\* the sum of the numerators of a row
RowMass(row) == RowMassSeq(row, SetToSeq(DOMAIN row))

RECURSIVE ChainClosure(_, _, _)
\* the states reachable from S in the chain that takes row p[t] at t
ChainClosure(A, p, S) ==
    LET n == S \cup UNION {Successors(A[p[t]]) : t \in S}
    IN  IF n = S THEN S ELSE ChainClosure(A, p, n)

\* the memoryless choices: one row (1-based) for every group
Policies(rowGroups) ==
    LET k == Len(rowGroups) - 1
    IN  {p \in [0 .. (k - 1) -> 1 .. rowGroups[k + 1]] :
            \A j \in 0 .. (k - 1) : p[j] \in RowGroup(rowGroups, j)}

\* the least non-negative solution of x = A_p x + b_p (infinity allowed)
SolveChain(A, b, rowGroups, p) ==
    LET k == Len(rowGroups) - 1
        Reach(j) == ChainClosure(A, p, {j})
        recurrent == {j \in 0 .. (k - 1) :
                        \A t \in Reach(j) : RowMass(A[p[t]]) = Den /\ j \in Reach(t)}
        infinite == {j \in 0 .. (k - 1) :
                        \E t \in Reach(j) : t \in recurrent /\ b[p[t]] # constGetZero}
        transient == SetToSeq((0 .. (k - 1)) \ (infinite \cup recurrent))
        n == Len(transient)
        M == [i \in 1 .. n |-> [j \in 1 .. n |->
                 RSub(IF i = j THEN constGetOne ELSE constGetZero,
                      Entry(A[p[transient[i]]], transient[j]))]]
        r == [i \in 1 .. n |-> b[p[transient[i]]]]
        d == Det(M)
    IN  [j \in 0 .. (k - 1) |->
            IF j \in infinite THEN constGetInfinity
            ELSE IF j \in recurrent THEN constGetZero
            ELSE LET i == CHOOSE i \in 1 .. n : transient[i] = j
                 IN  RDiv(Det(ReplaceColumn(M, i, r)), d)]

RMin(S) == CHOOSE a \in S : \A c \in S : RLeq(a, c)
RMax(S) == CHOOSE a \in S : \A c \in S : RLeq(c, a)

\* solveEquationSystem(minimize, A, x, b, rowGroups): the x it leaves
solveEquationSystem(minimize, A, b, rowGroups) ==
    LET k == Len(rowGroups) - 1
        sols == {SolveChain(A, b, rowGroups, p) : p \in Policies(rowGroups)}
    IN  [j \in 1 .. k |->
            IF minimize THEN RMin({x[j - 1] : x \in sols})
            ELSE RMax({x[j - 1] : x \in sols})]

(***************************************************************************)
(* Scheduler extraction.                                                   *)
(***************************************************************************)
\* one multiplication of the matrix with a vector over its columns: an entry per row
MatrixTimesVector(matrix, x) ==
    [r \in 1 .. Len(matrix) |-> RowTimesVector(matrix[r], x)]

\* SparseMatrix::getPointwiseProductRowSumVector: per row, the sum over the
\* stored entries of probability times the other matrix's entry
getPointwiseProductRowSumVector(matrix, otherMatrix) ==
    [r \in 1 .. Len(matrix) |->
        LET cols == SetToSeq(Successors(matrix[r]))
        IN  SumSeq([c \in 1 .. Len(cols) |->
                RMul(Entry(matrix[r], cols[c]), <<otherMatrix[r][cols[c]], 1>>)])]

RECURSIVE Repeated(_, _, _)
Repeated(stateSeq, rowGrouping, values) ==
    IF stateSeq = <<>> THEN <<>>
    ELSE [i \in 1 .. Cardinality(RowGroup(rowGrouping, Head(stateSeq))) |-> values[Head(stateSeq)]]
           \o Repeated(Tail(stateSeq), rowGrouping, values)

\* selectVectorValuesRepeatedly: the value of each state of `positions', once
\* for every row of its row group
selectVectorValuesRepeatedly(positions, rowGrouping, values) ==
    Repeated(SetToSeq(positions), rowGrouping, values)

\* selectVectorValues(vector, positions, rowGrouping, values): the entries of
\* the row-indexed `values' for the rows of the states of `positions'
selectVectorValues(positions, rowGrouping, values) ==
    LET rows == RowsOfStates(rowGrouping, SetToSeq(positions))
    IN  [i \in 1 .. Len(rows) |-> values[rows[i]]]

\* addVectorsInPlace(target, summand), for vectors of one length
addVectorsInPlace(target, summand) ==
    [i \in 1 .. Len(target) |-> RAdd(target[i], summand[i])]

\* reduceVectorMin / reduceVectorMax with a choices vector: per row group the
\* local index of the first row that holds the extremal value (a later row
\* replaces the current one only when it is strictly better)
reduceVectorChoices(source, rowGrouping, minimize) ==
    [s \in 0 .. (Len(rowGrouping) - 2) |->
        LET group == RowGroup(rowGrouping, s)
            first == rowGrouping[s + 1] + 1
            best == CHOOSE r \in group :
                       /\ \A q \in group : IF minimize THEN RLeq(source[r], source[q])
                                                        ELSE RLeq(source[q], source[r])
                       /\ \A q \in group : q < r => source[q] # source[r]
        IN  best - first]

\* the one-step lookahead of computeExtremalScheduler: an entry per row
nondeterministicResultOf(transitionMatrix, nondeterministicChoiceIndices, result, stateRewardVector, transitionRewardMatrix) ==
    LET multiplied == MatrixTimesVector(transitionMatrix, result)
        allStates == 0 .. (Len(nondeterministicChoiceIndices) - 2)
    IN  IF stateRewardVector # <<>> \/ transitionRewardMatrix # <<>>
        THEN LET totalRewardVector ==
                    IF transitionRewardMatrix # <<>>
                    THEN LET rowSums == getPointwiseProductRowSumVector(transitionMatrix, transitionRewardMatrix[1])
                         IN  IF stateRewardVector # <<>>
                             THEN addVectorsInPlace(rowSums,
                                      selectVectorValuesRepeatedly(allStates, nondeterministicChoiceIndices, stateRewardVector[1]))
                             ELSE rowSums
                    ELSE selectVectorValuesRepeatedly(allStates, nondeterministicChoiceIndices, stateRewardVector[1])
             IN  addVectorsInPlace(multiplied, totalRewardVector)
        ELSE multiplied

\* computeExtremalScheduler with the direction inverted
computeExtremalSchedulerInverted(minimize, transitionMatrix, nondeterministicChoiceIndices, result, stateRewardVector, transitionRewardMatrix) ==
    reduceVectorChoices(
        nondeterministicResultOf(transitionMatrix, nondeterministicChoiceIndices, result,
                                 stateRewardVector, transitionRewardMatrix),
        nondeterministicChoiceIndices, ~minimize)

\* computeExtremalScheduler with the vector of choices sized by the rows
computeExtremalSchedulerPerRow(minimize, transitionMatrix, nondeterministicChoiceIndices, result, stateRewardVector, transitionRewardMatrix) ==
    LET choices == reduceVectorChoices(
                       nondeterministicResultOf(transitionMatrix, nondeterministicChoiceIndices,
                                                result, stateRewardVector, transitionRewardMatrix),
                       nondeterministicChoiceIndices, minimize)
    IN  [i \in 0 .. (Len(transitionMatrix) - 1) |-> IF i \in DOMAIN choices THEN choices[i] ELSE 0]

\* computeExtremalScheduler: the choices of the TotalScheduler; an absent
\* reward vector / matrix (nullptr) is <<>>, a present one is <<it>>
computeExtremalScheduler(minimize, transitionMatrix, nondeterministicChoiceIndices, result, stateRewardVector, transitionRewardMatrix) ==
    reduceVectorChoices(
        nondeterministicResultOf(transitionMatrix, nondeterministicChoiceIndices, result,
                                 stateRewardVector, transitionRewardMatrix),
        nondeterministicChoiceIndices, minimize)

(***************************************************************************)
(* The until solver.                                                       *)
(***************************************************************************)
\* the precomputation with phi and psi exchanged in the call of the Min variant
statesWithProbability01ArgsExchanged(minimize, transitionMatrix, nondeterministicChoiceIndices, phiStates, psiStates) ==
    IF minimize
    THEN performProb01Min(transitionMatrix, nondeterministicChoiceIndices, psiStates, phiStates)
    ELSE performProb01Max(transitionMatrix, nondeterministicChoiceIndices, phiStates, psiStates)

\* the precomputation with the variants exchanged
statesWithProbability01VariantsExchanged(minimize, transitionMatrix, nondeterministicChoiceIndices, phiStates, psiStates) ==
    IF minimize
    THEN performProb01Max(transitionMatrix, nondeterministicChoiceIndices, phiStates, psiStates)
    ELSE performProb01Min(transitionMatrix, nondeterministicChoiceIndices, phiStates, psiStates)

\* the pair statesWithProbability01: performProb01Min when minimize is set,
\* performProb01Max otherwise
statesWithProbability01Of(minimize, transitionMatrix, nondeterministicChoiceIndices, phiStates, psiStates) ==
    IF minimize
    THEN performProb01Min(transitionMatrix, nondeterministicChoiceIndices, phiStates, psiStates)
    ELSE performProb01Max(transitionMatrix, nondeterministicChoiceIndices, phiStates, psiStates)

\* the known values written with the constants exchanged
setKnownProbabilitiesExchanged(result, statesWithProbability0, statesWithProbability1) ==
    setVectorValue(setVectorValue(result, statesWithProbability0, constGetOne),
                   statesWithProbability1, constGetZero)

\* "Set values of resulting vector that are known exactly": 0 on the
\* probability-0 states, then 1 on the probability-1 states
setKnownProbabilities(result, statesWithProbability0, statesWithProbability1) ==
    setVectorValue(setVectorValue(result, statesWithProbability0, constGetZero),
                   statesWithProbability1, constGetOne)

\* the maybe-states as the complement of the probability-1 states alone
maybeStatesNotProb1(allStates, statesWithProbability0, statesWithProbability1) ==
    allStates \ statesWithProbability1

\* maybeStates = ~(statesWithProbability0 | statesWithProbability1)
maybeStatesOf(allStates, statesWithProbability0, statesWithProbability1) ==
    allStates \ (statesWithProbability0 \cup statesWithProbability1)

\* the right-hand side summed over the columns of the maybe-states
untilRightHandSideIntoMaybeStates(transitionMatrix, maybeStates, nondeterministicChoiceIndices, statesWithProbability1) ==
    getConstrainedRowSumVector(transitionMatrix, maybeStates,
                               nondeterministicChoiceIndices, maybeStates)

\* "the accumulated probability of going from state i to some 'yes' state":
\* the vector b of the equation system
untilRightHandSide(transitionMatrix, maybeStates, nondeterministicChoiceIndices, statesWithProbability1) ==
    getConstrainedRowSumVector(transitionMatrix, maybeStates,
                               nondeterministicChoiceIndices, statesWithProbability1)

\* the test of line 544 with a conjunction in the place of the disjunction
skipsNumericSolvingConjunction(initialStates, maybeStates, qualitative) ==
    (initialStates \cap maybeStates = {}) /\ qualitative

\* "Check whether we need to compute exact probabilities for some states":
\* initialStates.isDisjointFrom(maybeStates) || qualitative
skipsNumericSolving(initialStates, maybeStates, qualitative) ==
    (initialStates \cap maybeStates = {}) \/ qualitative

\* computeUnboundedUntilProbabilities: the pair it returns (result,
\* scheduler) together with the locals the properties speak about; events
\* is the sequence of graph precomputations and solver primitives invoked,
\* ending with the matrix-vector multiplication of computeExtremalScheduler
computeUnboundedUntilProbabilities(minimize, transitionMatrix, nondeterministicChoiceIndices, initialStates, phiStates, psiStates, qualitative) ==
    LET numberOfStates == Len(nondeterministicChoiceIndices) - 1
        allStates == StatesOf(nondeterministicChoiceIndices)
        statesWithProbability01 ==
            statesWithProbability01Of(minimize, transitionMatrix,
                nondeterministicChoiceIndices, phiStates, psiStates)
        statesWithProbability0 == statesWithProbability01[1]
        statesWithProbability1 == statesWithProbability01[2]
        maybeStates == maybeStatesOf(allStates, statesWithProbability0, statesWithProbability1)
        skip == skipsNumericSolving(initialStates, maybeStates, qualitative)
        submatrix == getSubmatrix(transitionMatrix, maybeStates, nondeterministicChoiceIndices)
        subNondeterministicChoiceIndices ==
            getConstrainedOffsetVector(nondeterministicChoiceIndices, maybeStates)
        b == untilRightHandSide(transitionMatrix, maybeStates,
                                nondeterministicChoiceIndices, statesWithProbability1)
        x == solveEquationSystem(minimize, submatrix, b, subNondeterministicChoiceIndices)
        result1 == IF skip THEN setVectorValue(ZeroVector(numberOfStates), maybeStates, SentinelHalf)
                   ELSE setVectorValues(ZeroVector(numberOfStates), maybeStates, x)
        result == setKnownProbabilities(result1, statesWithProbability0, statesWithProbability1)
        scheduler == computeExtremalScheduler(minimize, transitionMatrix,
                         nondeterministicChoiceIndices, result, <<>>, <<>>)
    IN  [status |-> "returned",
         result |-> result,
         scheduler |-> scheduler,
         statesWithProbability0 |-> statesWithProbability0,
         statesWithProbability1 |-> statesWithProbability1,
         maybeStates |-> maybeStates,
         events |-> <<[kind |-> IF minimize THEN "performProb01Min" ELSE "performProb01Max"]>>
                    \o (IF skip THEN <<>>
                        ELSE <<[kind |-> "solveEquationSystem", minimize |-> minimize,
                                A |-> submatrix, b |-> b,
                                rowGroups |-> subNondeterministicChoiceIndices, x |-> x]>>)
                    \o <<[kind |-> "computeExtremalScheduler"]>>]

(***************************************************************************)
(* The reward solvers.  The model's optional state reward vector and       *)
(* transition reward matrix are <<>> when absent and <<it>> when present.  *)
(***************************************************************************)
\* what a solver entry point leaves when it throws
Thrown(exception, events) ==
    [status |-> "thrown", exception |-> exception, events |-> events]

\* reduceVectorMin / reduceVectorMax without choices: the extremal value per row group
reduceVector(source, rowGrouping, minimize) ==
    [s \in 0 .. (Len(rowGrouping) - 2) |->
        LET values == {source[r] : r \in RowGroup(rowGrouping, s)}
        IN  IF minimize THEN RMin(values) ELSE RMax(values)]

RECURSIVE performMatrixVectorMultiplication(_, _, _, _, _, _)
\* n synchronous sweeps x := min/max over each row group of (A x + b);
\* b is <<>> (nullptr) or <<the vector with one entry per row>>
performMatrixVectorMultiplication(minimize, A, x, rowGroups, b, n) ==
    IF n = 0 THEN x
    ELSE LET multiplied == MatrixTimesVector(A, x)
             summed == IF b = <<>> THEN multiplied ELSE addVectorsInPlace(multiplied, b[1])
         IN  performMatrixVectorMultiplication(minimize, A,
                 reduceVector(summed, rowGroups, minimize), rowGroups, b, n - 1)

hasStateRewards(m) == m.stateRewardVector # <<>>
hasTransitionRewards(m) == m.transitionRewardMatrix # <<>>

getNumberOfStates(m) == Len(m.nondeterministicChoiceIndices) - 1

\* getStateRewardVector(); only read where hasStateRewards() holds
getStateRewardVector(m) ==
    IF hasStateRewards(m) THEN m.stateRewardVector[1] ELSE ZeroVector(getNumberOfStates(m))

\* getTransitionRewardMatrix(); only read where hasTransitionRewards() holds
getTransitionRewardMatrix(m) ==
    IF hasTransitionRewards(m) THEN m.transitionRewardMatrix[1]
    ELSE [r \in 1 .. Len(m.transitionMatrix) |-> [t \in StatesOf(m.nondeterministicChoiceIndices) |-> 0]]

\* the guard with its negation lost
MissingRewardModelNegated(m) == hasStateRewards(m) \/ hasTransitionRewards(m)

\* the guard of checkCumulativeReward and checkReachabilityReward:
\* the model has neither state nor transition rewards
MissingRewardModel(m) == ~(hasStateRewards(m) \/ hasTransitionRewards(m))

\* the known values written with the constants exchanged
setKnownRewardsExchanged(result, targetStates, infinityStates) ==
    setVectorValue(setVectorValue(result, targetStates, constGetInfinity),
                   infinityStates, constGetZero)

\* "Set values of resulting vector that are known exactly": 0 on the target
\* states, then infinity on the infinity states
setKnownRewards(result, targetStates, infinityStates) ==
    setVectorValue(setVectorValue(result, targetStates, constGetZero),
                   infinityStates, constGetInfinity)

\* the right-hand side with the row sums of all rows of the matrix in the
\* place of those of the rows of the maybe-states
rewardRightHandSideNotSelected(m, maybeStates) ==
    LET rows == RowsOfStates(m.nondeterministicChoiceIndices, SetToSeq(maybeStates))
        rowSums == getPointwiseProductRowSumVector(m.transitionMatrix, getTransitionRewardMatrix(m))
    IN  IF hasTransitionRewards(m)
        THEN IF hasStateRewards(m)
             THEN addVectorsInPlace([i \in 1 .. Len(rows) |-> rowSums[i]],
                      selectVectorValuesRepeatedly(maybeStates, m.nondeterministicChoiceIndices,
                                                   getStateRewardVector(m)))
             ELSE [i \in 1 .. Len(rows) |-> rowSums[i]]
        ELSE selectVectorValuesRepeatedly(maybeStates, m.nondeterministicChoiceIndices,
                                          getStateRewardVector(m))

\* checkReachabilityReward: "Prepare the right-hand side of the equation
\* system", one entry per row of the maybe-states
rewardRightHandSide(m, maybeStates) ==
    IF hasTransitionRewards(m)
    THEN LET pointwiseProductRowSumVector ==
                 getPointwiseProductRowSumVector(m.transitionMatrix, getTransitionRewardMatrix(m))
             selected == selectVectorValues(maybeStates, m.nondeterministicChoiceIndices,
                                            pointwiseProductRowSumVector)
         IN  IF hasStateRewards(m)
             THEN addVectorsInPlace(selected,
                      selectVectorValuesRepeatedly(maybeStates, m.nondeterministicChoiceIndices,
                                                   getStateRewardVector(m)))
             ELSE selected
    ELSE selectVectorValuesRepeatedly(maybeStates, m.nondeterministicChoiceIndices,
                                      getStateRewardVector(m))

\* checkReachabilityReward after its guard: the infinity states, the
\* equation system, the result vector and the scheduler
computeReachabilityRewards(m, top, minimize, targetStates, qualitative) ==
    LET transitionMatrix == m.transitionMatrix
        nondeterministicChoiceIndices == m.nondeterministicChoiceIndices
        numberOfStates == Len(nondeterministicChoiceIndices) - 1
        allStates == StatesOf(nondeterministicChoiceIndices)
        trueStates == allStates
        infinityStates ==
            allStates \ (IF minimize
                      THEN performProb1A(transitionMatrix, nondeterministicChoiceIndices, trueStates, targetStates)
                      ELSE performProb1E(transitionMatrix, nondeterministicChoiceIndices, trueStates, targetStates))
        maybeStates == (allStates \ targetStates) \cap (allStates \ infinityStates)
        skip == m.initialStates \cap maybeStates = {}
        submatrix == getSubmatrix(transitionMatrix, maybeStates, nondeterministicChoiceIndices)
        subNondeterministicChoiceIndices ==
            getConstrainedOffsetVector(nondeterministicChoiceIndices, maybeStates)
        b == rewardRightHandSide(m, maybeStates)
        x == solveEquationSystem(minimize, submatrix, b, subNondeterministicChoiceIndices)
        result1 == IF skip THEN setVectorValue(ZeroVector(numberOfStates), maybeStates, constGetOne)
                   ELSE setVectorValues(ZeroVector(numberOfStates), maybeStates, x)
        result == setKnownRewards(result1, targetStates, infinityStates)
        scheduler == computeExtremalScheduler(top, transitionMatrix, nondeterministicChoiceIndices,
                         result, m.stateRewardVector, m.transitionRewardMatrix)
    IN  [status |-> "returned",
         result |-> result,
         scheduler |-> scheduler,
         infinityStates |-> infinityStates,
         maybeStates |-> maybeStates,
         events |-> <<[kind |-> IF minimize THEN "performProb1A" ELSE "performProb1E"]>>
                    \o (IF skip THEN <<>>
                        ELSE <<[kind |-> "solveEquationSystem", minimize |-> minimize,
                                A |-> submatrix, b |-> b,
                                rowGroups |-> subNondeterministicChoiceIndices, x |-> x]>>)
                    \o <<[kind |-> "computeExtremalScheduler"]>>]

\* checkReachabilityReward with the guard tested after the computation
checkReachabilityRewardLateGuard(m, top, minimize, targetStates, qualitative) ==
    IF MissingRewardModel(m)
    THEN Thrown("InvalidPropertyException",
                computeReachabilityRewards(m, top, minimize, targetStates, qualitative).events)
    ELSE computeReachabilityRewards(m, top, minimize, targetStates, qualitative)

\* checkReachabilityReward(minimize, targetStates, qualitative) on model m;
\* top is what minimumOperatorStack.top() yields
checkReachabilityReward(m, top, minimize, targetStates, qualitative) ==
    IF MissingRewardModel(m) THEN Thrown("InvalidPropertyException", <<>>)
    ELSE computeReachabilityRewards(m, top, minimize, targetStates, qualitative)

\* a vector over the states as the sequence of its entries
AsSeq(v) == [i \in 1 .. Cardinality(DOMAIN v) |-> v[i - 1]]

\* the state reward vector has one entry per state; checkCumulativeReward
\* uses it where one entry per row is needed, so that with more rows than
\* states it is read past its end: by addVectorsInPlace when the model has
\* transition rewards, by the first sweep otherwise
PastEndReads(m, bound) ==
    /\ hasStateRewards(m)
    /\ Len(m.transitionMatrix) > getNumberOfStates(m)
    /\ hasTransitionRewards(m) \/ bound > 0

\* what a read past the end of the state reward vector may yield (the
\* behaviour is undefined): any value
PastEndValues(m, bound) ==
    IF PastEndReads(m, bound) THEN {<<v, 1>> : v \in 0 .. MaxReward} ELSE {constGetZero}

\* whether the read past the end may end the program
PastEndAborts(m, bound) == IF PastEndReads(m, bound) THEN BOOLEAN ELSE {FALSE}

\* checkCumulativeReward(formula, qualitative) on model m for
\* formula.getBound() = bound; pastEnd is what a read past the end of the
\* state reward vector yields
checkCumulativeReward(m, top, bound, pastEnd) ==
    IF MissingRewardModel(m) THEN Thrown("InvalidPropertyException", <<>>)
    ELSE
    LET rowSums == getPointwiseProductRowSumVector(m.transitionMatrix, getTransitionRewardMatrix(m))
        stateRewards == AsSeq(getStateRewardVector(m))
        \* entry r of the state reward vector, read for row r
        stateRewardsRead ==
            [r \in 1 .. Len(m.transitionMatrix) |->
                IF r <= Len(stateRewards) THEN stateRewards[r] ELSE pastEnd]
        totalRewardVector ==
            IF hasTransitionRewards(m)
            THEN IF hasStateRewards(m) THEN addVectorsInPlace(rowSums, stateRewardsRead) ELSE rowSums
            ELSE stateRewards
        \* the entries the multiplication reads from totalRewardVector
        added == IF hasTransitionRewards(m) THEN totalRewardVector ELSE stateRewardsRead
        start == IF hasStateRewards(m) THEN getStateRewardVector(m)
                 ELSE ZeroVector(getNumberOfStates(m))
    IN  [status |-> "returned",
         result |-> performMatrixVectorMultiplication(top, m.transitionMatrix, start,
                        m.nondeterministicChoiceIndices, <<added>>, bound),
         events |-> <<[kind |-> "performMatrixVectorMultiplication", minimize |-> top,
                       b |-> totalRewardVector, n |-> bound]>>]

\* the guard of checkInstantaneousReward taken from checkCumulativeReward
MissingStateRewardModelAnyReward(m) == MissingRewardModel(m)

\* the guard of checkInstantaneousReward: the model has no state rewards
MissingStateRewardModel(m) == ~hasStateRewards(m)

\* checkInstantaneousReward(formula, qualitative) on model m for
\* formula.getBound() = bound
checkInstantaneousReward(m, top, bound) ==
    IF MissingStateRewardModel(m) THEN Thrown("InvalidPropertyException", <<>>)
    ELSE [status |-> "returned",
          result |-> performMatrixVectorMultiplication(top, m.transitionMatrix,
                         getStateRewardVector(m), m.nondeterministicChoiceIndices, <<>>, bound),
          events |-> <<[kind |-> "performMatrixVectorMultiplication", minimize |-> top,
                        b |-> <<>>, n |-> bound]>>]

(***************************************************************************)
(* The bounded-until solver.                                               *)
(***************************************************************************)
\* SparseMatrix::makeRowsAbsorbing(rowGroupConstraint, rowGroupIndices): every
\* row of the states of the constraint becomes a self-loop
makeRowsAbsorbing(matrix, rowGroupConstraint, rowGroupIndices) ==
    [r \in 1 .. Len(matrix) |->
        IF \E s \in rowGroupConstraint : r \in RowGroup(rowGroupIndices, s)
        THEN LET s == CHOOSE s \in rowGroupConstraint : r \in RowGroup(rowGroupIndices, s)
             IN  [j \in DOMAIN matrix[r] |-> IF j = s THEN Den ELSE 0]
        ELSE matrix[r]]

\* psiStates % statesWithProbabilityGreater0: the positions, among the
\* states of the constraint, of those that are psi states
RestrictedTo(states, constraint) == {IndexIn(constraint, s) : s \in states \cap constraint}

\* the submatrix of checkBoundedUntil without the call of makeRowsAbsorbing
boundedUntilSubmatrixNotAbsorbing(transitionMatrix, nondeterministicChoiceIndices, statesWithProbabilityGreater0, psiStates) ==
    getSubmatrix(transitionMatrix, statesWithProbabilityGreater0, nondeterministicChoiceIndices)

\* the submatrix of checkBoundedUntil with the psi states not renumbered to
\* the reduced system before their rows are made absorbing
boundedUntilSubmatrixNotRenumbered(transitionMatrix, nondeterministicChoiceIndices, statesWithProbabilityGreater0, psiStates) ==
    makeRowsAbsorbing(
        getSubmatrix(transitionMatrix, statesWithProbabilityGreater0, nondeterministicChoiceIndices),
        psiStates \cap (0 .. (Cardinality(statesWithProbabilityGreater0) - 1)),
        getConstrainedOffsetVector(nondeterministicChoiceIndices, statesWithProbabilityGreater0))

\* the submatrix of checkBoundedUntil: the rows and columns of the states
\* with probability greater 0, the rows of the psi states made absorbing
boundedUntilSubmatrix(transitionMatrix, nondeterministicChoiceIndices, statesWithProbabilityGreater0, psiStates) ==
    makeRowsAbsorbing(
        getSubmatrix(transitionMatrix, statesWithProbabilityGreater0, nondeterministicChoiceIndices),
        RestrictedTo(psiStates, statesWithProbabilityGreater0),
        getConstrainedOffsetVector(nondeterministicChoiceIndices, statesWithProbabilityGreater0))

\* checkBoundedUntil(phiStates, psiStates, stepBound, qualitative) on model
\* m; top is what minimumOperatorStack.top() yields.  qualitative is not read
checkBoundedUntil(m, top, phiStates, psiStates, stepBound) ==
    LET transitionMatrix == m.transitionMatrix
        nondeterministicChoiceIndices == m.nondeterministicChoiceIndices
        numberOfStates == getNumberOfStates(m)
        allStates == StatesOf(nondeterministicChoiceIndices)
        statesWithProbabilityGreater0 ==
            IF top
            THEN performProbGreater0A(transitionMatrix, nondeterministicChoiceIndices,
                                      phiStates, psiStates, TRUE, stepBound)
            ELSE performProbGreater0E(transitionMatrix, nondeterministicChoiceIndices,
                                      phiStates, psiStates, TRUE, stepBound)
        skip == m.initialStates \cap statesWithProbabilityGreater0 = {}
        subNondeterministicChoiceIndices ==
            getConstrainedOffsetVector(nondeterministicChoiceIndices, statesWithProbabilityGreater0)
        rightStatesInReducedSystem == RestrictedTo(psiStates, statesWithProbabilityGreater0)
        submatrix == boundedUntilSubmatrix(transitionMatrix, nondeterministicChoiceIndices,
                                           statesWithProbabilityGreater0, psiStates)
        seed == setVectorValue(ZeroVector(Cardinality(statesWithProbabilityGreater0)),
                               rightStatesInReducedSystem, constGetOne)
        subresult == performMatrixVectorMultiplication(top, submatrix, seed,
                         subNondeterministicChoiceIndices, <<>>, stepBound)
        result ==
            IF skip THEN setVectorValue(ZeroVector(numberOfStates),
                                        statesWithProbabilityGreater0, SentinelHalf)
            ELSE setVectorValue(
                     setVectorValues(ZeroVector(numberOfStates), statesWithProbabilityGreater0,
                                     AsSeq(subresult)),
                     allStates \ statesWithProbabilityGreater0, constGetZero)
    IN  [status |-> "returned",
         result |-> result,
         statesWithProbabilityGreater0 |-> statesWithProbabilityGreater0,
         events |-> <<[kind |-> IF top THEN "performProbGreater0A" ELSE "performProbGreater0E"]>>
                    \o (IF skip THEN <<>>
                        ELSE <<[kind |-> "performMatrixVectorMultiplication", minimize |-> top,
                                n |-> stepBound]>>)]

(***************************************************************************)
(* The MDPs that are enumerated: every state but the last has between 1    *)
(* and MaxChoices pairwise different rows, each a distribution with        *)
(* denominator Den; the last state is absorbing.                           *)
(***************************************************************************)
Distributions == {d \in [States -> 0 .. Den] : RowMass(d) = Den}

RowGroups ==
    UNION {{g \in [1 .. n -> Distributions] : \A i, j \in 1 .. n : i < j => g[i] # g[j]}
             : n \in 1 .. MaxChoices}

AbsorbingRow(s) == [t \in States |-> IF t = s THEN Den ELSE 0]

RECURSIVE Flatten(_, _)
\* the matrix of the row groups of the states s, s+1, ...
Flatten(groups, s) ==
    IF s = NumStates THEN <<>> ELSE groups[s] \o Flatten(groups, s + 1)

RECURSIVE Offsets(_, _, _)
Offsets(groups, s, offset) ==
    IF s = NumStates THEN <<offset>>
    ELSE <<offset>> \o Offsets(groups, s + 1, offset + Len(groups[s]))

MakeMdp(groups) ==
    [transitionMatrix |-> Flatten(groups, 0),
     nondeterministicChoiceIndices |-> Offsets(groups, 0, 0)]

AllMdps ==
    {MakeMdp([s \in States |-> IF s = NumStates - 1 THEN <<AbsorbingRow(s)>> ELSE free[s]])
       : free \in [0 .. (NumStates - 2) -> RowGroups]}

Mdps == {mdp \in AllMdps : Len(mdp.transitionMatrix) <= MaxRows}

\* the MDPs the reward solvers are run on: only state 0 has a choice
RewardMdps ==
    {mdp \in Mdps : \A s \in States \ {0} :
                       Cardinality(RowGroup(mdp.nondeterministicChoiceIndices, s)) = 1}

\* the state reward vector and the transition reward matrix of the enumerated
\* reward models; both take the values 0 .. MaxReward
StateRewardVectorOf(mdp) ==
    [s \in StatesOf(mdp.nondeterministicChoiceIndices) |-> <<(s + 1) % (MaxReward + 1), 1>>]

TransitionRewardMatrixOf(mdp) ==
    [r \in 1 .. Len(mdp.transitionMatrix) |->
        [t \in StatesOf(mdp.nondeterministicChoiceIndices) |-> (r + t) % (MaxReward + 1)]]

\* the MDP with two states of the scheduler example: state 0 has action A
\* (row 0) to state 1 and action B (row 1) looping on state 0; state 1 is absorbing
TwoStateMdp ==
    [transitionMatrix |-> <<[t \in 0 .. 1 |-> IF t = 1 THEN Den ELSE 0],
                            [t \in 0 .. 1 |-> IF t = 0 THEN Den ELSE 0],
                            [t \in 0 .. 1 |-> IF t = 1 THEN Den ELSE 0]>>,
     nondeterministicChoiceIndices |-> <<0, 2, 3>>]

(***************************************************************************)
(* State.                                                                  *)
(***************************************************************************)
VARIABLES
    model,                  \* the MDP of the checker (getModel())
    minimumOperatorStack,   \* the optimise-direction stack
    call,                   \* the entry point called last, its arguments and its outcome
    frames,                 \* the activations of the recursive descent over a formula
    events,                 \* the primitives invoked so far within the running check call
    history                 \* the outcomes of the completed check calls

vars == <<model, minimumOperatorStack, call, frames, events, history>>

Idle == [op |-> "none"]

\* the model of the checker without a reward model
PlainModel(mdp, initialStates) ==
    [transitionMatrix |-> mdp.transitionMatrix,
     nondeterministicChoiceIndices |-> mdp.nondeterministicChoiceIndices,
     initialStates |-> initialStates,
     stateRewardVector |-> <<>>,
     transitionRewardMatrix |-> <<>>]

\* the MDPs in which every state has exactly one action
DeterministicMdps == {mdp \in Mdps : Len(mdp.transitionMatrix) = NumStates}

\* a checker is constructed over a model; its stack is empty.  The initial
\* state of the enumerated models is state 0; the models with one action per
\* state are enumerated with every set of initial states
Init ==
    /\ \/ \E mdp \in Mdps \cup {TwoStateMdp} : model = PlainModel(mdp, {0})
       \/ \E mdp \in DeterministicMdps, initialStates \in SUBSET States :
             model = PlainModel(mdp, initialStates)
    /\ minimumOperatorStack = <<>>
    /\ call = Idle
    /\ frames = <<>>
    /\ events = <<>>
    /\ history = <<>>

ModelStates == StatesOf(model.nondeterministicChoiceIndices)

\* the model has more states than the small enumerated models
IsWideModel == Cardinality(ModelStates) > NumStates

\* the phi and psi sets the entry points are called with: every set of
\* states on the small models; on the larger models phi is every state and
\* psi holds the last state and any of the states that are not absorbing
PhiChoices == IF IsWideModel THEN {ModelStates} ELSE SUBSET ModelStates

PsiChoices ==
    IF IsWideModel
    THEN {X \cup {Cardinality(ModelStates) - 1} :
             X \in SUBSET (0 .. (Cardinality(ModelStates) - 3))}
    ELSE SUBSET ModelStates

\* checkUntil(minimize, phiStates, psiStates, qualitative) on the model
checkUntil(minimize, phiStates, psiStates, qualitative) ==
    [op |-> "computeUnboundedUntilProbabilities",
     minimize |-> minimize, phiStates |-> phiStates,
     psiStates |-> psiStates, qualitative |-> qualitative,
     ret |-> computeUnboundedUntilProbabilities(minimize,
                 model.transitionMatrix, model.nondeterministicChoiceIndices,
                 model.initialStates, phiStates, psiStates, qualitative)]

\* a caller invokes checkUntil(minimize, phiStates, psiStates, qualitative)
CallUntil ==
    /\ call = Idle
    /\ \E minimize \in BOOLEAN, qualitative \in BOOLEAN,
          phiStates \in PhiChoices, psiStates \in PsiChoices :
          call' = checkUntil(minimize, phiStates, psiStates, qualitative)
    /\ UNCHANGED <<model, minimumOperatorStack, frames, events, history>>

\* the caller has consumed the outcome of the last call
Reset ==
    /\ call # Idle
    /\ frames = <<>>
    /\ call' = Idle
    /\ events' = <<>>
    /\ UNCHANGED <<model, minimumOperatorStack, frames, history>>

Next == CallUntil \/ Reset

Spec == Init /\ [][Next]_vars

(***************************************************************************)
(* Properties of the until solver.                                         *)
(***************************************************************************)
UntilReturned == call.op = "computeUnboundedUntilProbabilities"

\* the entry point called last has invoked solveEquationSystem
SolverInvoked ==
    \E i \in 1 .. Len(call.ret.events) : call.ret.events[i].kind = "solveEquationSystem"

\* C1: the vector returned by the until solver is 0 on every state of the
\* computed probability-0 set, 1 on every state of the computed
\* probability-1 set, and between 0 and 1 on every state
C1_KnownValuesAndRange ==
    UntilReturned =>
        /\ \A s \in call.ret.statesWithProbability0 : call.ret.result[s] = constGetZero
        /\ \A s \in call.ret.statesWithProbability1 : call.ret.result[s] = constGetOne
        /\ \A s \in ModelStates :
              /\ RLeq(constGetZero, call.ret.result[s])
              /\ RLeq(call.ret.result[s], constGetOne)

\* a call with all three kinds of states, whose maybe-state was solved for
C1_Witness ==
    /\ UntilReturned
    /\ call.ret.statesWithProbability0 # {}
    /\ call.ret.statesWithProbability1 # {}
    /\ call.ret.maybeStates # {}
    /\ SolverInvoked

\* the call of the scheduler example
TwoStateCall ==
    /\ UntilReturned
    /\ model.transitionMatrix = TwoStateMdp.transitionMatrix
    /\ model.nondeterministicChoiceIndices = TwoStateMdp.nondeterministicChoiceIndices
    /\ call.psiStates = {1}
    /\ call.phiStates = {0, 1}

\* C2: on the two-state MDP with psi = {1} and phi = {0, 1}, maximising
\* returns the probabilities [1, 1] with action A (index 0) at state 0, and
\* minimising returns [0, 1] with action B (index 1) at state 0
C2_TwoStateExample ==
    TwoStateCall =>
        IF call.minimize
        THEN /\ call.ret.result = [s \in 0 .. 1 |-> IF s = 0 THEN constGetZero ELSE constGetOne]
             /\ call.ret.scheduler[0] = 1
        ELSE /\ call.ret.result = [s \in 0 .. 1 |-> constGetOne]
             /\ call.ret.scheduler[0] = 0

C2_Witness == TwoStateCall /\ call.minimize /\ ~call.qualitative

\* the Markov chain the returned scheduler induces: of every row group only
\* the row the scheduler takes is kept
InducedChainMatrix ==
    [i \in 1 .. Cardinality(ModelStates) |->
        model.transitionMatrix[model.nondeterministicChoiceIndices[i] + 1
                                 + call.ret.scheduler[i - 1]]]

InducedChainChoiceIndices == [i \in 1 .. (Cardinality(ModelStates) + 1) |-> i - 1]

\* the until probabilities of the induced chain, solved for at every state
RecomputedOnInducedChain ==
    computeUnboundedUntilProbabilities(call.minimize, InducedChainMatrix,
        InducedChainChoiceIndices, ModelStates, call.phiStates, call.psiStates, FALSE).result

\* C3: whenever the until solver has solved for the maybe-states, the until
\* probabilities recomputed on the Markov chain induced by the returned
\* scheduler equal the returned extremal values at every maybe-state
C3_SchedulerAchievesValue ==
    (UntilReturned /\ SolverInvoked) =>
        \A s \in call.ret.maybeStates : RecomputedOnInducedChain[s] = call.ret.result[s]

(***************************************************************************)
(* The solver entry points called on models with and without rewards.      *)
(***************************************************************************)
InitReward ==
    /\ \E mdp \in RewardMdps, initialState \in {0, 1},
          stateRewards \in BOOLEAN, transitionRewards \in BOOLEAN :
          model = [PlainModel(mdp, {initialState}) EXCEPT
                      !.stateRewardVector =
                          IF stateRewards THEN <<StateRewardVectorOf(mdp)>> ELSE <<>>,
                      !.transitionRewardMatrix =
                          IF transitionRewards THEN <<TransitionRewardMatrixOf(mdp)>> ELSE <<>>]
    /\ minimumOperatorStack = <<>>
    /\ call = Idle
    /\ frames = <<>>
    /\ events = <<>>
    /\ history = <<>>

\* what minimumOperatorStack.top() may yield: the top of a non-empty stack;
\* on an empty stack the read is undefined and yields either value
TopValues == IF minimumOperatorStack = <<>> THEN BOOLEAN
             ELSE {minimumOperatorStack[Len(minimumOperatorStack)]}

\* whether the read of top() may end the program: only on an empty stack
TopAborts == IF minimumOperatorStack = <<>> THEN BOOLEAN ELSE {FALSE}

\* the outcome of an entry point that reads top() after its guard
AfterTopRead(ret, aborts) ==
    IF aborts /\ ret.status # "thrown" THEN [status |-> "aborted", events |-> ret.events] ELSE ret

\* a caller invokes checkReachabilityReward(minimize, targetStates, qualitative)
CallReachabilityReward ==
    /\ call = Idle
    /\ \E minimize \in BOOLEAN, qualitative \in BOOLEAN, targetStates \in SUBSET ModelStates,
          top \in TopValues :
          \E ret \in {checkReachabilityReward(model, top, minimize, targetStates, qualitative)},
             aborts \in TopAborts :
                 call' = [op |-> "checkReachabilityReward",
                          minimize |-> minimize, targetStates |-> targetStates,
                          qualitative |-> qualitative, top |-> top,
                          ret |-> AfterTopRead(ret, aborts)]
    /\ UNCHANGED <<model, minimumOperatorStack, frames, events, history>>

\* a caller invokes checkCumulativeReward(formula, qualitative)
CallCumulativeReward ==
    /\ call = Idle
    /\ \E bound \in 0 .. MaxStepBound, top \in TopValues :
          \E pastEnd \in PastEndValues(model, bound) :
          \E ret \in {checkCumulativeReward(model, top, bound, pastEnd)},
             aborts \in TopAborts \cup PastEndAborts(model, bound) :
                 call' = [op |-> "checkCumulativeReward", bound |-> bound, top |-> top,
                          ret |-> AfterTopRead(ret, aborts)]
    /\ UNCHANGED <<model, minimumOperatorStack, frames, events, history>>

\* a caller invokes checkInstantaneousReward(formula, qualitative)
CallInstantaneousReward ==
    /\ call = Idle
    /\ \E bound \in 0 .. MaxStepBound, top \in TopValues :
          \E ret \in {checkInstantaneousReward(model, top, bound)}, aborts \in TopAborts :
                 call' = [op |-> "checkInstantaneousReward", bound |-> bound, top |-> top,
                          ret |-> AfterTopRead(ret, aborts)]
    /\ UNCHANGED <<model, minimumOperatorStack, frames, events, history>>

\* a caller invokes checkUntil with every state a phi state
CallUntilTrue ==
    /\ call = Idle
    /\ \E minimize \in BOOLEAN, qualitative \in BOOLEAN, psiStates \in SUBSET ModelStates :
          call' = checkUntil(minimize, ModelStates, psiStates, qualitative)
    /\ UNCHANGED <<model, minimumOperatorStack, frames, events, history>>

NextReward ==
    \/ CallUntilTrue
    \/ CallReachabilityReward
    \/ CallCumulativeReward
    \/ CallInstantaneousReward
    \/ Reset

SpecReward == InitReward /\ [][NextReward]_vars

(***************************************************************************)
(* Properties of the extracted scheduler and of the reward guard.          *)
(***************************************************************************)
\* an entry point has returned a result vector together with a scheduler
SchedulerReturned ==
    /\ call.op \in {"computeUnboundedUntilProbabilities", "checkReachabilityReward"}
    /\ call.ret.status = "returned"

RewardVariant == call.op = "checkReachabilityReward"

\* the direction handed to computeExtremalScheduler
SchedulerDirection == IF RewardVariant THEN call.top ELSE call.minimize

\* the row (1-based position in the matrix) the scheduler takes in state s
ChosenRow(s) == model.nondeterministicChoiceIndices[s + 1] + 1 + call.ret.scheduler[s]

\* the one-step lookahead of row r owned by state s: row times the returned
\* vector, in the reward variant plus the state reward of s and the expected
\* transition reward of the row
Lookahead(s, r) ==
    LET row == model.transitionMatrix[r]
        succ == SetToSeq({t \in ModelStates : row[t] > 0})
        expected == SumSeq([i \in 1 .. Len(succ) |->
                        RMul(Rat(row[succ[i]], Den), call.ret.result[succ[i]])])
        stateReward == IF RewardVariant /\ model.stateRewardVector # <<>>
                       THEN model.stateRewardVector[1][s] ELSE constGetZero
        transitionReward ==
            IF RewardVariant /\ model.transitionRewardMatrix # <<>>
            THEN SumSeq([i \in 1 .. Len(succ) |->
                     RMul(Rat(row[succ[i]], Den),
                          Rat(model.transitionRewardMatrix[1][r][succ[i]], 1))])
            ELSE constGetZero
    IN  RAdd(expected, RAdd(stateReward, transitionReward))

\* C4: at every maybe-state the row chosen by computeExtremalScheduler
\* attains the minimum (direction minimize) or the maximum (direction
\* maximize) of the one-step lookahead over the rows of the state, and no
\* row of lower index attains it
C4_SchedulerIsFirstArgOpt ==
    SchedulerReturned =>
        \A s \in call.ret.maybeStates :
            LET rows == RowGroup(model.nondeterministicChoiceIndices, s)
                chosen == ChosenRow(s)
            IN  /\ chosen \in rows
                /\ \A q \in rows :
                      /\ IF SchedulerDirection
                         THEN RLeq(Lookahead(s, chosen), Lookahead(s, q))
                         ELSE RLeq(Lookahead(s, q), Lookahead(s, chosen))
                      /\ q < chosen => Lookahead(s, q) # Lookahead(s, chosen)

\* the reward variant has solved for a maybe-state with two rows and has
\* taken its second row, the first one being strictly worse
C4_Witness ==
    /\ SchedulerReturned
    /\ RewardVariant
    /\ SolverInvoked
    /\ \E s \in call.ret.maybeStates :
          /\ Cardinality(RowGroup(model.nondeterministicChoiceIndices, s)) = 2
          /\ call.ret.scheduler[s] = 1
          /\ ~IsInfinite(Lookahead(s, ChosenRow(s)))

\* C5: the scheduler returned by the until solver and by the reachability
\* reward solver has exactly one entry per state of the model, and the entry
\* of state s is an index into the row group of s
C5_SchedulerTotal ==
    SchedulerReturned =>
        /\ DOMAIN call.ret.scheduler = ModelStates
        /\ \A s \in ModelStates :
              /\ call.ret.scheduler[s] >= 0
              /\ call.ret.scheduler[s]
                    < Cardinality(RowGroup(model.nondeterministicChoiceIndices, s))

\* both entry points have returned a scheduler that takes a second row
C5_Witness ==
    /\ SchedulerReturned
    /\ call.qualitative
    /\ \E s \in ModelStates : call.ret.scheduler[s] = 1

RewardSolverCalled == call.op \in {"checkCumulativeReward", "checkReachabilityReward"}

NoRewardModel == model.stateRewardVector = <<>> /\ model.transitionRewardMatrix = <<>>

\* C9: checkCumulativeReward and checkReachabilityReward, called on a model
\* with neither state rewards nor transition rewards, throw the
\* missing-reward-model exception, return neither a vector nor a scheduler,
\* and have invoked no solver primitive and no graph precomputation
C9_MissingRewardModelFailsFirst ==
    (RewardSolverCalled /\ NoRewardModel) =>
        /\ call.ret.status = "thrown"
        /\ call.ret.exception = "InvalidPropertyException"
        /\ call.ret.events = <<>>
        /\ DOMAIN call.ret \cap {"result", "scheduler"} = {}

C9_Witness ==
    /\ call.op = "checkCumulativeReward"
    /\ NoRewardModel
    /\ call.ret.status = "thrown"

(***************************************************************************)
(* Formulas.  An operator without a bound has a direction ("min", "max" or *)
(* "none") and a path formula; a path formula has a state formula as its   *)
(* child or a step bound; a state formula is an atomic proposition (given  *)
(* by the set of states it labels) or a nested operator compared with the  *)
(* bound 0.                                                                *)
(***************************************************************************)
Labels == {{1}, {NumStates - 1}}

RECURSIVE StateFormulas(_), PathFormulas(_), NoBoundOperators(_)
StateFormulas(depth) ==
    {[type |-> "Ap", states |-> l] : l \in Labels}
        \cup (IF depth = 0 THEN {}
              ELSE {[type |-> "BoundOperator", operator |-> f] : f \in NoBoundOperators(depth - 1)})

PathFormulas(depth) ==
    {[type |-> t, child |-> c] : t \in {"Eventually", "ReachabilityReward"},
                                 c \in StateFormulas(depth)}
        \cup {[type |-> "CumulativeReward", bound |-> 1]}

NoBoundOperators(depth) ==
    {[type |-> "NoBoundOperator", optimality |-> o, path |-> f] :
         o \in {"min", "max", "none"}, f \in PathFormulas(depth)}

isOptimalityOperator(formula) == formula.optimality # "none"
isMinimumOperator(formula) == formula.optimality = "min"

(***************************************************************************)
(* The recursive descent.  frames holds the activations, the last one      *)
(* running; an activation is at its entry, waits for the check it has      *)
(* called, or resumes with the value that check returned.                  *)
(***************************************************************************)
Frame(fn, formula) == [fn |-> fn, formula |-> formula, pc |-> "entry", val |-> <<>>]

TopFrame == frames[Len(frames)]

Running(fn, pc) == frames # <<>> /\ TopFrame.fn = fn /\ TopFrame.pc = pc

\* the function that checks a path formula
PathChecker(formula) ==
    CASE formula.type = "Eventually" -> "checkEventually"
      [] formula.type = "ReachabilityReward" -> "checkReachabilityReward"
      [] formula.type = "CumulativeReward" -> "checkCumulativeReward"

\* the running activation calls the check of a sub-formula and waits for it
Descend(fn, formula) ==
    frames' = [frames EXCEPT ![Len(frames)].pc = "wait"] \o <<Frame(fn, formula)>>

\* the running activation returns value to its caller
Return(value) ==
    IF Len(frames) = 1
    THEN /\ frames' = <<>>
         /\ call' = [op |-> call.op, formula |-> call.formula, entryStack |-> call.entryStack,
                     status |-> "returned", result |-> value]
         /\ history' = Append(history, "returned")
    ELSE /\ frames' = [SubSeq(frames, 1, Len(frames) - 1) EXCEPT
                          ![Len(frames) - 1].pc = "resume",
                          ![Len(frames) - 1].val = <<value>>]
         /\ UNCHANGED <<call, history>>

\* the running activation ends the check call without a value: it throws an
\* exception, which no activation catches, or its behaviour is undefined
Finish(status, exception) ==
    /\ frames' = <<>>
    /\ call' = [op |-> call.op, formula |-> call.formula, entryStack |-> call.entryStack,
                status |-> status, exception |-> exception, thrownAt |-> Len(frames)]
    /\ history' = Append(history, status)

\* the primitives an entry point has invoked, tagged with its activation
Invoked(ret) == [i \in 1 .. Len(ret.events) |-> [by |-> Len(frames), kind |-> ret.events[i].kind]]

\* a caller invokes checkNoBoundOperator(formula)
CallCheckNoBoundOperator ==
    /\ call = Idle
    /\ Len(history) < MaxCalls
    /\ \E formula \in NoBoundOperators(MaxDepth) :
          /\ call' = [op |-> "checkNoBoundOperator", formula |-> formula,
                      entryStack |-> minimumOperatorStack, status |-> "running"]
          /\ frames' = <<Frame("checkNoBoundOperator", formula)>>
    /\ events' = <<>>
    /\ UNCHANGED <<model, minimumOperatorStack, history>>

\* checkNoBoundOperator without its guard
checkNoBoundOperatorEntryUnguarded ==
    /\ Running("checkNoBoundOperator", "entry")
    /\ minimumOperatorStack' = Append(minimumOperatorStack, isMinimumOperator(TopFrame.formula))
    /\ Descend(PathChecker(TopFrame.formula.path), TopFrame.formula.path)
    /\ UNCHANGED <<model, call, events, history>>

\* checkNoBoundOperator up to its call of formula.check: the guard, the push
checkNoBoundOperatorEntry ==
    /\ Running("checkNoBoundOperator", "entry")
    /\ IF ~isOptimalityOperator(TopFrame.formula)
       THEN /\ Finish("thrown", "InvalidArgumentException")
            /\ UNCHANGED <<model, minimumOperatorStack, events>>
       ELSE /\ minimumOperatorStack' =
                   Append(minimumOperatorStack, isMinimumOperator(TopFrame.formula))
            /\ Descend(PathChecker(TopFrame.formula.path), TopFrame.formula.path)
            /\ UNCHANGED <<model, call, events, history>>

\* checkNoBoundOperator returning without the pop
checkNoBoundOperatorExitNoPop ==
    /\ Running("checkNoBoundOperator", "resume")
    /\ Return(TopFrame.val[1])
    /\ UNCHANGED <<model, minimumOperatorStack, events>>

\* checkNoBoundOperator after formula.check has returned: the pop, the return
checkNoBoundOperatorExit ==
    /\ Running("checkNoBoundOperator", "resume")
    /\ minimumOperatorStack' = SubSeq(minimumOperatorStack, 1, Len(minimumOperatorStack) - 1)
    /\ Return(TopFrame.val[1])
    /\ UNCHANGED <<model, events>>

\* the check of the child of the running path formula has a value: an
\* atomic proposition is looked up in the labelling, a nested operator has
\* been checked by an activation of its own
ChildChecked ==
    \/ TopFrame.pc = "resume"
    \/ TopFrame.pc = "entry" /\ TopFrame.formula.child.type = "Ap"

ChildStates == IF TopFrame.pc = "resume" THEN TopFrame.val[1] ELSE TopFrame.formula.child.states

\* formula.getChild().check(*this) where the child is a nested operator
CheckChild ==
    /\ frames # <<>>
    /\ TopFrame.fn \in {"checkEventually", "checkReachabilityReward"}
    /\ TopFrame.pc = "entry"
    /\ TopFrame.formula.child.type = "BoundOperator"
    /\ Descend("checkBoundOperator", TopFrame.formula.child)
    /\ UNCHANGED <<model, minimumOperatorStack, call, events, history>>

\* checkEventually(formula, qualitative) once the child is checked: the
\* until formula with left operand true, checkUntil(formula, qualitative)
checkEventually ==
    /\ frames # <<>>
    /\ TopFrame.fn = "checkEventually"
    /\ ChildChecked
    /\ \E top \in TopValues :
          \E ret \in {computeUnboundedUntilProbabilities(top, model.transitionMatrix,
                          model.nondeterministicChoiceIndices, model.initialStates,
                          ModelStates, ChildStates, FALSE)} :
              /\ events' = events \o Invoked(ret)
              /\ Return(ret.result)
    /\ UNCHANGED <<model, minimumOperatorStack>>

\* checkReachabilityReward(formula, qualitative) once the child is checked
DispatchReachabilityReward ==
    /\ frames # <<>>
    /\ TopFrame.fn = "checkReachabilityReward"
    /\ ChildChecked
    /\ \E top \in TopValues :
          \E ret \in {checkReachabilityReward(model, top, top, ChildStates, FALSE)} :
              /\ events' = events \o Invoked(ret)
              /\ IF ret.status = "thrown"
                 THEN Finish("thrown", ret.exception)
                 ELSE Return(ret.result)
    /\ UNCHANGED <<model, minimumOperatorStack>>

\* formula.check for a cumulative reward formula
DispatchCumulativeReward ==
    /\ Running("checkCumulativeReward", "entry")
    /\ \E top \in TopValues :
          \E pastEnd \in PastEndValues(model, TopFrame.formula.bound),
             aborts \in PastEndAborts(model, TopFrame.formula.bound) :
          \E ret \in {checkCumulativeReward(model, top, TopFrame.formula.bound, pastEnd)} :
              /\ events' = events \o Invoked(ret)
              /\ CASE ret.status = "thrown" -> Finish("thrown", ret.exception)
                   [] aborts -> Finish("undefined", "none")
                   [] OTHER -> Return(ret.result)
    /\ UNCHANGED <<model, minimumOperatorStack>>

\* the check of a nested operator: it is resolved by checkNoBoundOperator ...
checkBoundOperatorEntry ==
    /\ Running("checkBoundOperator", "entry")
    /\ Descend("checkNoBoundOperator", TopFrame.formula.operator)
    /\ UNCHANGED <<model, minimumOperatorStack, call, events, history>>

\* ... and the states whose value exceeds the bound 0 are returned
checkBoundOperatorExit ==
    /\ Running("checkBoundOperator", "resume")
    /\ Return({s \in ModelStates : RLess(constGetZero, TopFrame.val[1][s])})
    /\ UNCHANGED <<model, minimumOperatorStack, events>>

\* the MDPs formulas are checked on: state 0 loops, or chooses between
\* looping and another row; state 1 moves on to the absorbing last state
CheckMdps ==
    {mdp \in RewardMdps :
        /\ mdp.transitionMatrix[1] = AbsorbingRow(0)
        /\ mdp.transitionMatrix[Len(mdp.transitionMatrix) - 1] = AbsorbingRow(NumStates - 1)}

InitCheck ==
    /\ \E mdp \in CheckMdps, stateRewards \in BOOLEAN, transitionRewards \in BOOLEAN :
          model = [PlainModel(mdp, {0}) EXCEPT
                      !.stateRewardVector =
                          IF stateRewards THEN <<StateRewardVectorOf(mdp)>> ELSE <<>>,
                      !.transitionRewardMatrix =
                          IF transitionRewards THEN <<TransitionRewardMatrixOf(mdp)>> ELSE <<>>]
    /\ minimumOperatorStack = <<>>
    /\ call = Idle
    /\ frames = <<>>
    /\ events = <<>>
    /\ history = <<>>

NextCheck ==
    \/ CallCheckNoBoundOperator
    \/ checkNoBoundOperatorEntry
    \/ checkNoBoundOperatorExit
    \/ CheckChild
    \/ checkEventually
    \/ DispatchReachabilityReward
    \/ DispatchCumulativeReward
    \/ checkBoundOperatorEntry
    \/ checkBoundOperatorExit
    \/ Reset

SpecCheck == InitCheck /\ [][NextCheck]_vars

(***************************************************************************)
(* Properties of the direction stack and of the order of errors.           *)
(***************************************************************************)
CheckEnded == call.op = "checkNoBoundOperator" /\ call.status \in {"returned", "thrown"}

CheckThrew == call.op = "checkNoBoundOperator" /\ call.status = "thrown"

\* C6: when checkNoBoundOperator has ended, by returning or by an exception
\* thrown while its formula was checked, the stack is what it was at the call
C6_StackRestoredOnEveryExit ==
    CheckEnded => minimumOperatorStack = call.entryStack

\* an activation of checkNoBoundOperator whose push is on the stack
HasPushed(frame) == frame.fn = "checkNoBoundOperator" /\ frame.pc # "entry"

\* the directions of the operators whose sub-formula is being checked, outermost first
EnclosingDirections ==
    LET pushed == SelectSeq(frames, HasPushed)
    IN  [i \in 1 .. Len(pushed) |-> isMinimumOperator(pushed[i].formula)]

\* every check call so far has returned normally or is still running
AllReturnedNormally == \A i \in 1 .. Len(history) : history[i] = "returned"

PathCheckers == {"checkEventually", "checkReachabilityReward", "checkCumulativeReward"}

\* C7: as long as every check call has returned normally, the stack holds
\* exactly the directions of the operators whose sub-formula is being
\* checked, innermost on top (so it is empty between calls, and a call that
\* has returned has left it as it was at its entry), and it is not empty
\* where the check of a path formula reads its top
C7_StackMirrorsNesting ==
    AllReturnedNormally =>
        /\ minimumOperatorStack = EnclosingDirections
        /\ call.op = "checkNoBoundOperator" /\ call.status = "returned"
              => minimumOperatorStack = call.entryStack
        /\ frames # <<>> /\ TopFrame.fn \in PathCheckers => minimumOperatorStack # <<>>

\* in the second call of a checker, the path formula of a nested operator is
\* about to be solved under the two directions of the enclosing operators
C7_Witness ==
    /\ AllReturnedNormally
    /\ Len(history) = 1
    /\ frames # <<>>
    /\ TopFrame.fn \in PathCheckers
    /\ Len(minimumOperatorStack) = 2
    /\ minimumOperatorStack[1] # minimumOperatorStack[2]

\* C8: checkNoBoundOperator on a formula that is neither a min nor a max
\* operator never gets past its entry: it ends with InvalidArgumentException,
\* the stack is as at the call, no sub-formula has an activation, no
\* primitive has been invoked and there is no result
C8_NoDirectionFailsFirst ==
    (call.op = "checkNoBoundOperator" /\ ~isOptimalityOperator(call.formula)) =>
        /\ minimumOperatorStack = call.entryStack
        /\ events = <<>>
        /\ Len(frames) <= 1
        /\ frames # <<>> => TopFrame.fn = "checkNoBoundOperator" /\ TopFrame.pc = "entry"
        /\ frames = <<>> =>
              /\ call.status = "thrown"
              /\ call.exception = "InvalidArgumentException"
              /\ "result" \notin DOMAIN call

C8_Witness ==
    /\ CheckThrew
    /\ ~isOptimalityOperator(call.formula)
    /\ call.formula.path.type = "Eventually"

\* the primitives of the equation solver
SolverPrimitives == {"solveEquationSystem", "performMatrixVectorMultiplication"}

\* C10 as claimed: a check call that ends with an exception has invoked no
\* primitive of the equation solver
C10_NoErrorAfterNumericWork ==
    CheckThrew => \A i \in 1 .. Len(events) : events[i].kind \notin SolverPrimitives

\* C10: a check call that ends with an exception has invoked no primitive
\* in the activation that throws nor in an enclosing one: every primitive
\* invoked before the exception was invoked by the check of a sub-formula of
\* the throwing activation, which had returned
C10_ErrorBeforeOwnNumericWork ==
    CheckThrew => \A i \in 1 .. Len(events) : events[i].by > call.thrownAt

\* a reward formula has failed on a model without rewards after the nested
\* operator of its child had the equation system solved
C10_Witness ==
    /\ CheckThrew
    /\ call.exception = "InvalidPropertyException"
    /\ \E i \in 1 .. Len(events) : events[i].kind = "solveEquationSystem"

(***************************************************************************)
(* Relations between calls of the until solver.  The solver is a static    *)
(* function of its arguments: a second call is the function applied to the *)
(* arguments of that call.                                                 *)
(***************************************************************************)
\* the model of the checker has exactly one action per state
OneActionPerState ==
    \A s \in ModelStates : Cardinality(RowGroup(model.nondeterministicChoiceIndices, s)) = 1

\* what the until solver returns on the model for the other direction
UntilOtherDirection ==
    computeUnboundedUntilProbabilities(~call.minimize, model.transitionMatrix,
        model.nondeterministicChoiceIndices, model.initialStates,
        call.phiStates, call.psiStates, call.qualitative)

\* C11: on a model with exactly one action per state the until solver
\* returns the same result vector for minimize and for maximize, whatever
\* phiStates, psiStates, initialStates and the qualitative flag are
C11_DeterministicMinEqualsMax ==
    (UntilReturned /\ OneActionPerState) =>
        UntilOtherDirection.result = call.ret.result

\* a minimising call on a one-action-per-state model with initial states
\* other than {0} that solved for its maybe-states
C11_Witness ==
    /\ UntilReturned
    /\ OneActionPerState
    /\ call.minimize
    /\ model.initialStates = {0, 1}
    /\ SolverInvoked
    /\ call.ret.statesWithProbability0 # {}

(***************************************************************************)
(* Chain models: one action per state; each of the first states moves with *)
(* probability (Den-1)/Den to a state a and with 1/Den to a state b that   *)
(* is a itself or one of the last two states; the last two are absorbing.  *)
(***************************************************************************)
WideStates == 0 .. (NumWideStates - 1)

WideRows ==
    {[t \in WideStates |-> (IF t = a THEN Den - 1 ELSE 0) + (IF t = b THEN 1 ELSE 0)] :
        a \in WideStates, b \in {NumWideStates - 2, NumWideStates - 1}}
    \cup {[t \in WideStates |-> IF t = a THEN Den ELSE 0] : a \in WideStates}

WideMdps ==
    {[transitionMatrix |->
          [i \in 1 .. NumWideStates |->
              IF i <= NumWideStates - 2 THEN rows[i]
              ELSE [t \in WideStates |-> IF t = i - 1 THEN Den ELSE 0]],
      nondeterministicChoiceIndices |-> [i \in 1 .. (NumWideStates + 1) |-> i - 1]] :
        rows \in [1 .. (NumWideStates - 2) -> WideRows]}

InitWide ==
    /\ \E mdp \in Mdps \cup WideMdps : model = PlainModel(mdp, {0})
    /\ minimumOperatorStack = <<>>
    /\ call = Idle
    /\ frames = <<>>
    /\ events = <<>>
    /\ history = <<>>

\* a caller invokes checkUntil(false, phiStates, psiStates, qualitative)
CallUntilMaximize ==
    /\ call = Idle
    /\ \E qualitative \in BOOLEAN, phiStates \in PhiChoices, psiStates \in PsiChoices :
          call' = checkUntil(FALSE, phiStates, psiStates, qualitative)
    /\ UNCHANGED <<model, minimumOperatorStack, frames, events, history>>

NextWide == CallUntilMaximize \/ Reset

SpecWide == InitWide /\ [][NextWide]_vars

\* what the until solver returns on the model for the psi states psi
UntilForPsi(psi) ==
    computeUnboundedUntilProbabilities(call.minimize, model.transitionMatrix,
        model.nondeterministicChoiceIndices, model.initialStates,
        call.phiStates, psi, call.qualitative)

\* r2 is at every state greater than or equal to r1
VectorLeq(r1, r2) == \A s \in DOMAIN r1 : RLeq(r1[s], r2[s])

\* C12 (as stated): for psi a subset of psi', the maximize-until result
\* returned for psi' is at every state greater than or equal to the one
\* returned for psi
C12_MonotoneInPsi ==
    (UntilReturned /\ ~call.minimize /\ ~call.qualitative) =>
        \A psi \in PsiChoices :
            call.psiStates \subseteq psi => VectorLeq(call.ret.result, UntilForPsi(psi).result)

\* C12 (amended): the same, for calls that both solve the equation system
\* or both skip it
C12_MonotoneInPsiOnOneBranch ==
    (UntilReturned /\ ~call.minimize) =>
        \A psi \in PsiChoices :
            \E other \in {UntilForPsi(psi)} :
                (/\ call.psiStates \subseteq psi
                 /\ SolverInvoked <=> (\E i \in 1 .. Len(other.events) :
                                          other.events[i].kind = "solveEquationSystem"))
                    => VectorLeq(call.ret.result, other.result)

\* a call that solved and gave a maybe-state a value other than the sentinel
\* while a larger psi leaves a maybe-state with a larger solved value
C12_Witness ==
    /\ UntilReturned /\ ~call.minimize /\ SolverInvoked
    /\ \E psi \in PsiChoices :
          /\ call.psiStates \subseteq psi /\ call.psiStates # psi
          /\ \E other \in {UntilForPsi(psi)} :
                /\ \E i \in 1 .. Len(other.events) : other.events[i].kind = "solveEquationSystem"
                /\ \E s \in call.ret.maybeStates \cap other.maybeStates :
                      RLess(call.ret.result[s], other.result[s])

(***************************************************************************)
(* The bounded-until solver called below an optimality operator.           *)
(***************************************************************************)
\* checkNoBoundOperator on an operator with a direction over a bounded-until
\* formula whose sub-formulas hold in phiStates and psiStates: the direction
\* is pushed, checkBoundedUntil reads it with top(), and it is popped
CallBoundedUntil ==
    /\ call = Idle
    /\ \E minimum \in BOOLEAN, phiStates \in PhiChoices, psiStates \in PsiChoices,
          stepBound \in 0 .. MaxStepBound :
          \E ret \in {checkBoundedUntil(model, minimum, phiStates, psiStates, stepBound)} :
              call' = [op |-> "checkBoundedUntil", top |-> minimum,
                       phiStates |-> phiStates, psiStates |-> psiStates,
                       stepBound |-> stepBound, ret |-> ret]
    /\ UNCHANGED <<model, minimumOperatorStack, frames, events, history>>

NextBounded == CallBoundedUntil \/ Reset

SpecBounded == InitWide /\ [][NextBounded]_vars

BoundedUntilReturned == call.op = "checkBoundedUntil"

\* checkBoundedUntil has multiplied (it did not skip)
BoundedUntilComputed(ret) ==
    \E i \in 1 .. Len(ret.events) : ret.events[i].kind = "performMatrixVectorMultiplication"

\* what checkBoundedUntil returns on the model for the next step bound
BoundedUntilNextBound ==
    checkBoundedUntil(model, call.top, call.phiStates, call.psiStates, call.stepBound + 1)

\* C13 (as stated): at every state the value checkBoundedUntil returns for
\* stepBound k+1 is greater than or equal to the value it returns for k
C13_MonotoneInStepBound ==
    BoundedUntilReturned => VectorLeq(call.ret.result, BoundedUntilNextBound.result)

\* C13 (amended): the same, for calls that both multiply or both skip
C13_MonotoneInStepBoundOnOneBranch ==
    BoundedUntilReturned =>
        \E next \in {BoundedUntilNextBound} :
            (BoundedUntilComputed(call.ret) <=> BoundedUntilComputed(next))
                => VectorLeq(call.ret.result, next.result)

\* a minimising call that multiplied, whose value at a state with two
\* actions grows strictly with the next step bound
C13_Witness ==
    /\ BoundedUntilReturned /\ call.top /\ BoundedUntilComputed(call.ret)
    /\ call.stepBound = MaxStepBound
    /\ \E s \in ModelStates :
          /\ Cardinality(RowGroup(model.nondeterministicChoiceIndices, s)) = 2
          /\ RLess(constGetZero, call.ret.result[s])
          /\ RLess(call.ret.result[s], BoundedUntilNextBound.result[s])

(***************************************************************************)
(* The skipped branch of the until solver and its sentinel.                *)
(***************************************************************************)
\* the until solver has returned without invoking solveEquationSystem
UntilSkipped == UntilReturned /\ ~SolverInvoked

\* what a quantitative run that solves for every maybe-state returns: the
\* same call with qualitative unset and every state an initial state
UntilQuantitative ==
    computeUnboundedUntilProbabilities(call.minimize, model.transitionMatrix,
        model.nondeterministicChoiceIndices, ModelStates,
        call.phiStates, call.psiStates, FALSE)

\* C14 (as stated): when numeric solving is skipped, the value stored at
\* every maybe-state is a value that a quantitative run of the solver does
\* not produce as the until-probability of any state
C14_SentinelIsNoRealResult ==
    UntilSkipped =>
        \A s \in call.ret.maybeStates :
            \A t \in ModelStates : UntilQuantitative.result[t] # call.ret.result[s]

\* C14 (amended): when numeric solving is skipped, the maybe-states are
\* exactly the states that hold a value other than 0 and 1, and that value
\* is Type(0.5)
C14_SentinelMarksMaybeStates ==
    UntilSkipped =>
        \A s \in ModelStates :
            /\ s \in call.ret.maybeStates <=>
                   call.ret.result[s] \notin {constGetZero, constGetOne}
            /\ s \in call.ret.maybeStates => call.ret.result[s] = <<1, 2>>

\* a call with qualitative unset that skipped because the initial states
\* are decided, with states of all three kinds
C14_Witness ==
    /\ UntilSkipped /\ ~call.qualitative
    /\ call.ret.maybeStates # {}
    /\ call.ret.statesWithProbability0 # {}
    /\ call.ret.statesWithProbability1 # {}

\* C15: the until solver invokes solveEquationSystem if and only if
\* qualitative is unset and some initial state is a maybe-state; when it does
\* not, every maybe-state holds the sentinel 0.5, every probability-0 state
\* holds 0 and every probability-1 state holds 1
C15_SolvesIffInitialMaybeState ==
    UntilReturned =>
        /\ SolverInvoked <=>
               (~call.qualitative /\ model.initialStates \cap call.ret.maybeStates # {})
        /\ ~SolverInvoked =>
               /\ \A s \in call.ret.maybeStates : call.ret.result[s] = <<1, 2>>
               /\ \A s \in call.ret.statesWithProbability0 : call.ret.result[s] = <<0, 1>>
               /\ \A s \in call.ret.statesWithProbability1 : call.ret.result[s] = <<1, 1>>

\* a call with qualitative unset on a model with two initial states, none
\* of them a maybe-state, that left a maybe-state with the sentinel
C15_Witness ==
    /\ UntilSkipped /\ ~call.qualitative
    /\ Cardinality(model.initialStates) = 2
    /\ call.ret.maybeStates # {}
    /\ call.ret.statesWithProbability0 \cap model.initialStates # {}
    /\ call.ret.statesWithProbability1 \cap model.initialStates # {}

\* the two final assignments in the other order: 1 on the probability-1
\* states, then 0 on the probability-0 states
KnownProbabilitiesOtherOrder(result, statesWithProbability0, statesWithProbability1) ==
    setVectorValue(setVectorValue(result, statesWithProbability1, constGetOne),
                   statesWithProbability0, constGetZero)

\* C16: in the until solver every state belongs to exactly one of the sets
\* statesWithProbability0, statesWithProbability1 and maybeStates, and
\* making the two final assignments in the other order gives the same result
C16_ThreeSetsPartitionStates ==
    UntilReturned =>
        /\ \A s \in ModelStates :
              Cardinality({S \in {<<0, call.ret.statesWithProbability0>>,
                                 <<1, call.ret.statesWithProbability1>>,
                                 <<2, call.ret.maybeStates>>} : s \in S[2]}) = 1
        /\ call.ret.statesWithProbability0 \cup call.ret.statesWithProbability1
              \cup call.ret.maybeStates = ModelStates
        /\ KnownProbabilitiesOtherOrder(call.ret.result, call.ret.statesWithProbability0,
                                        call.ret.statesWithProbability1) = call.ret.result

\* a minimising call on a model with a choice in which all three sets are
\* non-empty
C16_Witness ==
    /\ UntilReturned /\ call.minimize /\ ~OneActionPerState
    /\ call.ret.statesWithProbability0 # {}
    /\ call.ret.statesWithProbability1 # {}
    /\ call.ret.maybeStates # {}

(***************************************************************************)
(* The meaning of the qualitative sets: the probabilities of phi U psi     *)
(* under every memoryless scheduler, computed from the linear system of    *)
(* the chain the scheduler induces and not by graph search.                *)
(***************************************************************************)
\* the vectors, one per memoryless scheduler, of the probabilities of
\* phi U psi at the states of the model
SchedulerValues(transitionMatrix, nondeterministicChoiceIndices, phiStates, psiStates) ==
    LET open == phiStates \ psiStates
        A == getSubmatrix(transitionMatrix, open, nondeterministicChoiceIndices)
        b == getConstrainedRowSumVector(transitionMatrix, open,
                                        nondeterministicChoiceIndices, psiStates)
        rowGroups == getConstrainedOffsetVector(nondeterministicChoiceIndices, open)
    IN  {[s \in StatesOf(nondeterministicChoiceIndices) |->
            IF s \in psiStates THEN constGetOne
            ELSE IF s \in open THEN SolveChain(A, b, rowGroups, p)[IndexIn(open, s)]
            ELSE constGetZero] : p \in Policies(rowGroups)}

\* C17: the qualitative sets of the until solver are exact.  Maximising, a
\* state is a probability-0 state iff every scheduler gives phi U psi
\* probability 0 and a probability-1 state iff some scheduler gives it
\* probability 1; minimising, it is a probability-0 state iff some scheduler
\* gives probability 0 and a probability-1 state iff every scheduler gives
\* probability 1.  The Min precomputation is the one invoked iff minimize
C17_QualitativeSetsExact ==
    UntilReturned =>
        /\ call.ret.events[1].kind =
               (IF call.minimize THEN "performProb01Min" ELSE "performProb01Max")
        /\ \A values \in {SchedulerValues(model.transitionMatrix,
                               model.nondeterministicChoiceIndices,
                               call.phiStates, call.psiStates)} :
              \A s \in ModelStates :
                 IF call.minimize
                 THEN /\ s \in call.ret.statesWithProbability0 <=>
                            \E v \in values : v[s] = constGetZero
                      /\ s \in call.ret.statesWithProbability1 <=>
                            \A v \in values : v[s] = constGetOne
                 ELSE /\ s \in call.ret.statesWithProbability0 <=>
                            \A v \in values : v[s] = constGetZero
                      /\ s \in call.ret.statesWithProbability1 <=>
                            \E v \in values : v[s] = constGetOne

\* a minimising call with a state that is a probability-0 state although
\* one of its actions reaches psi with probability 1
C17_Witness ==
    /\ UntilReturned /\ call.minimize
    /\ \E s \in call.ret.statesWithProbability0 :
          \E v \in SchedulerValues(model.transitionMatrix, model.nondeterministicChoiceIndices,
                                    call.phiStates, call.psiStates) : v[s] = constGetOne
    /\ call.ret.maybeStates # {}

(***************************************************************************)
(* Properties of the reachability-reward solver.                           *)
(***************************************************************************)
RewardReturned == call.op = "checkReachabilityReward" /\ call.ret.status = "returned"

\* C18: in the vector checkReachabilityReward returns every target state
\* holds 0 and every infinity state holds infinity; the target states, the
\* infinity states and the maybe-states are pairwise disjoint and cover the
\* states, for both directions
C18_RewardKnownValuesAndPartition ==
    RewardReturned =>
        /\ \A s \in call.targetStates : call.ret.result[s] = <<0, 1>>
        /\ \A s \in call.ret.infinityStates : call.ret.result[s] = <<1, 0>>
        /\ call.targetStates \cap call.ret.infinityStates = {}
        /\ call.targetStates \cap call.ret.maybeStates = {}
        /\ call.ret.infinityStates \cap call.ret.maybeStates = {}
        /\ call.targetStates \cup call.ret.infinityStates \cup call.ret.maybeStates = ModelStates

\* a maximising call that returned with states of all three kinds
C18_Witness ==
    /\ RewardReturned /\ ~call.minimize
    /\ call.targetStates # {}
    /\ call.ret.infinityStates # {}
    /\ call.ret.maybeStates # {}
    /\ SolverInvoked

\* C19: the reachability-reward solver marks a state as infinite exactly
\* when its extremal expected reward is infinite: minimising, a state from
\* which some scheduler reaches the target states with probability 1 is not
\* an infinity state and holds a finite value; maximising, a state is an
\* infinity state iff some scheduler reaches the target states with
\* probability less than 1
C19_InfinityStatesExact ==
    RewardReturned =>
        \A values \in {SchedulerValues(model.transitionMatrix,
                           model.nondeterministicChoiceIndices,
                           ModelStates, call.targetStates)} :
            \A s \in ModelStates :
                IF call.minimize
                THEN (\E v \in values : v[s] = constGetOne) =>
                        /\ s \notin call.ret.infinityStates
                        /\ ~IsInfinite(call.ret.result[s])
                ELSE s \in call.ret.infinityStates <=>
                        \E v \in values : v[s] # constGetOne

(***************************************************************************)
(* The equation system the until solver hands to the solver.               *)
(***************************************************************************)
\* the models the equation system is inspected on: one state more than the
\* small models; the last two states are absorbing, the others have up to
\* MaxChoices pairwise different rows, and the matrix has at most one row
\* more than there are states
BranchingStates == 0 .. NumStates

BranchingGroups ==
    UNION {{g \in [1 .. n -> {d \in [BranchingStates -> 0 .. Den] : RowMass(d) = Den}] :
               \A i, j \in 1 .. n : i < j => g[i] # g[j]} : n \in 1 .. MaxChoices}

BranchingMdps ==
    {mdp \in {[transitionMatrix |->
                  free[1] \o free[2]
                     \o <<[t \in BranchingStates |-> IF t = NumStates - 1 THEN Den ELSE 0],
                          [t \in BranchingStates |-> IF t = NumStates THEN Den ELSE 0]>>,
               nondeterministicChoiceIndices |->
                  <<0, Len(free[1]), Len(free[1]) + Len(free[2]),
                    Len(free[1]) + Len(free[2]) + 1, Len(free[1]) + Len(free[2]) + 2>>] :
                 free \in [1 .. 2 -> BranchingGroups]} :
        Len(mdp.transitionMatrix) <= NumStates + 2}

InitBranching ==
    /\ \E mdp \in BranchingMdps : model = PlainModel(mdp, {0})
    /\ minimumOperatorStack = <<>>
    /\ call = Idle
    /\ frames = <<>>
    /\ events = <<>>
    /\ history = <<>>

SpecBranching == InitBranching /\ [][Next]_vars

\* the invocations of solveEquationSystem by the entry point called last
SolveEvents ==
    {i \in 1 .. Len(call.ret.events) : call.ret.events[i].kind = "solveEquationSystem"}

\* the action rows (positions in the transition matrix) of the maybe-states,
\* in increasing order
MaybeRows ==
    SetToSeq({r \in 1 .. Len(model.transitionMatrix) :
                \E s \in call.ret.maybeStates :
                    r \in RowGroup(model.nondeterministicChoiceIndices, s)})

\* C20: when the until solver solves numerically it invokes
\* solveEquationSystem exactly once, with the direction minimize, the
\* action rows of the maybe-states restricted to the columns of the
\* maybe-states, the row-group offsets of the maybe-states, and a
\* right-hand side that holds per such row the sum of its probabilities into
\* probability-1 states; afterwards the k-th maybe-state holds x[k]
C20_EquationSystemOfMaybeStates ==
    (UntilReturned /\ SolverInvoked) =>
        /\ Cardinality(SolveEvents) = 1
        /\ \A i \in SolveEvents :
              \E e \in {call.ret.events[i]}, maybe \in {SetToSeq(call.ret.maybeStates)},
                 rows \in {MaybeRows} :
                 /\ e.minimize = call.minimize
                 /\ Len(e.A) = Len(rows)
                 /\ \A r \in 1 .. Len(rows) :
                       /\ DOMAIN e.A[r] = 0 .. (Len(maybe) - 1)
                       /\ \A j \in 1 .. Len(maybe) :
                             e.A[r][j - 1] = model.transitionMatrix[rows[r]][maybe[j]]
                 /\ Len(e.rowGroups) = Len(maybe) + 1
                 /\ e.rowGroups[1] = 0
                 /\ \A k \in 1 .. Len(maybe) :
                       e.rowGroups[k + 1] - e.rowGroups[k] =
                           Cardinality(RowGroup(model.nondeterministicChoiceIndices, maybe[k]))
                 /\ Len(e.b) = Len(rows)
                 /\ \A r \in 1 .. Len(rows) :
                       e.b[r] = Rat(RowMassSeq(model.transitionMatrix[rows[r]],
                                               SetToSeq(call.ret.statesWithProbability1)), Den)
                 /\ \A k \in 1 .. Len(maybe) : call.ret.result[maybe[k]] = e.x[k]

\* a call that solved for two maybe-states, one of them with two actions
\* and a row that enters a probability-1 state
C20_Witness ==
    /\ UntilReturned /\ SolverInvoked
    /\ Cardinality(call.ret.maybeStates) = 2
    /\ Len(MaybeRows) = 3
    /\ \E i \in SolveEvents : \E r \in 1 .. 3 :
          call.ret.events[i].b[r] # constGetZero

(***************************************************************************)
(* The bounded-until solver: the sweeps it performs.                       *)
(***************************************************************************)
\* one synchronous sweep written on the states of the model: a psi state
\* keeps its value, every other state of `within' takes the extremal value
\* over its rows of the row's product with the values of the states of `within'
BoundedSweep(minimize, within, psiStates, v) ==
    [s \in within |->
        IF s \in psiStates THEN v[s]
        ELSE LET values ==
                    {LET cols == SetToSeq(Successors(model.transitionMatrix[r]) \cap within)
                     IN  SumSeq([c \in 1 .. Len(cols) |->
                             RMul(Entry(model.transitionMatrix[r], cols[c]), v[cols[c]])]) :
                        r \in RowGroup(model.nondeterministicChoiceIndices, s)}
             IN  IF minimize THEN RMin(values) ELSE RMax(values)]

RECURSIVE BoundedSweeps(_, _, _, _, _)
BoundedSweeps(minimize, within, psiStates, v, n) ==
    IF n = 0 THEN v
    ELSE BoundedSweeps(minimize, within, psiStates,
                       BoundedSweep(minimize, within, psiStates, v), n - 1)

\* C21: when checkBoundedUntil multiplies, the states with probability
\* greater 0 within stepBound steps hold the result of exactly stepBound
\* sweeps in the direction on top of the stack, over those states with the
\* psi states absorbing, started from 1 on psi and 0 elsewhere; every other
\* state holds 0, psi states hold 1, and stepBound 0 yields the indicator of psi
C21_BoundedUntilIsStepBoundSweeps ==
    (BoundedUntilReturned /\ BoundedUntilComputed(call.ret)) =>
        \E within \in {call.ret.statesWithProbabilityGreater0} :
        \E v \in {BoundedSweeps(call.top, within, call.psiStates,
                       [s \in within |-> IF s \in call.psiStates THEN constGetOne
                                                                ELSE constGetZero],
                       call.stepBound)} :
            /\ \A s \in within : call.ret.result[s] = v[s]
            /\ \A s \in ModelStates \ within : call.ret.result[s] = constGetZero
            /\ \A s \in call.psiStates : call.ret.result[s] = constGetOne
            /\ call.stepBound = 0 =>
                  \A s \in ModelStates :
                      call.ret.result[s] = IF s \in call.psiStates THEN constGetOne
                                                                  ELSE constGetZero
            /\ Cardinality({i \in 1 .. Len(call.ret.events) :
                   call.ret.events[i].kind = "performMatrixVectorMultiplication"}) = 1
            /\ \A i \in 1 .. Len(call.ret.events) :
                   call.ret.events[i].kind = "performMatrixVectorMultiplication" =>
                       /\ call.ret.events[i].n = call.stepBound
                       /\ call.ret.events[i].minimize = call.top

\* a call with the largest step bound that multiplied on a reduced system
\* whose states are renumbered: a state outside it lies below a psi state,
\* and a state with two actions holds a value strictly between 0 and 1
C21_Witness ==
    /\ BoundedUntilReturned /\ BoundedUntilComputed(call.ret)
    /\ call.stepBound = MaxStepBound
    /\ \E s \in ModelStates \ call.ret.statesWithProbabilityGreater0 :
          \E t \in call.psiStates : s < t
    /\ \E s \in call.ret.statesWithProbabilityGreater0 :
          /\ Cardinality(RowGroup(model.nondeterministicChoiceIndices, s)) = 2
          /\ RLess(constGetZero, call.ret.result[s])
          /\ RLess(call.ret.result[s], constGetOne)

(***************************************************************************)
(* The reachability-reward solver: direction of the scheduler, right-hand  *)
(* side, qualitative evaluation.                                           *)
(***************************************************************************)
\* C22: the scheduler returned by checkReachabilityReward(minimize, ...) is
\* the one computeExtremalScheduler extracts from the returned vector under
\* the direction of the minimize argument, whatever the direction stack holds
C22_SchedulerFollowsMinimizeArgument ==
    (RewardReturned /\ call.ret.status = "returned") =>
        call.ret.scheduler =
            computeExtremalScheduler(call.minimize, model.transitionMatrix,
                model.nondeterministicChoiceIndices, call.ret.result,
                model.stateRewardVector, model.transitionRewardMatrix)

\* the state that owns row r (1-based position in the transition matrix)
OwnerOf(r) ==
    CHOOSE s \in ModelStates : r \in RowGroup(model.nondeterministicChoiceIndices, s)

\* C23: the right-hand side handed to solveEquationSystem by
\* checkReachabilityReward has one entry per action row of the maybe-states;
\* with transition rewards the entry is the sum over all successors of the
\* row of probability times transition reward, plus the reward of the owning
\* state when state rewards exist as well; with state rewards only it is the
\* reward of the owning state, for every row of that state
C23_RewardRightHandSide ==
    (RewardReturned /\ SolverInvoked) =>
        \A i \in SolveEvents :
            \E b \in {call.ret.events[i].b}, rows \in {MaybeRows} :
                /\ Len(b) = Len(rows)
                /\ \A k \in 1 .. Len(rows) :
                      \E row \in {model.transitionMatrix[rows[k]]} :
                      \E succ \in {SetToSeq({t \in ModelStates : row[t] > 0})} :
                      \E stateReward \in {IF model.stateRewardVector # <<>>
                                           THEN model.stateRewardVector[1][OwnerOf(rows[k])]
                                           ELSE constGetZero} :
                          b[k] =
                            IF model.transitionRewardMatrix # <<>>
                            THEN RAdd(SumSeq([j \in 1 .. Len(succ) |->
                                        RMul(Rat(row[succ[j]], Den),
                                             Rat(model.transitionRewardMatrix[1][rows[k]][succ[j]], 1))]),
                                      stateReward)
                            ELSE stateReward

\* a call on a model with both kinds of rewards that solved for a maybe-state
\* that is not state 0 while state 0 has two rows, so that the rows of the
\* maybe-states are not the first rows of the matrix, with a right-hand side
\* entry whose transition part is positive
C23_Witness ==
    /\ RewardReturned /\ SolverInvoked
    /\ model.stateRewardVector # <<>> /\ model.transitionRewardMatrix # <<>>
    /\ 0 \notin call.ret.maybeStates
    /\ Cardinality(RowGroup(model.nondeterministicChoiceIndices, 0)) = 2
    /\ \E i \in SolveEvents : \E k \in 1 .. Len(MaybeRows) :
          RLess(model.stateRewardVector[1][OwnerOf(MaybeRows[k])], call.ret.events[i].b[k])

\* C26: when checkReachabilityReward is called with qualitative set, or no
\* initial state is a maybe-state, it does not invoke solveEquationSystem:
\* the maybe-states hold the sentinel, the target states 0 and the infinity
\* states infinity
C26_RewardHonoursQualitative ==
    (RewardReturned /\ (call.qualitative \/ model.initialStates \cap call.ret.maybeStates = {})) =>
        /\ ~SolverInvoked
        /\ \A s \in call.ret.maybeStates : call.ret.result[s] = constGetOne
        /\ \A s \in call.targetStates : call.ret.result[s] = constGetZero
        /\ \A s \in call.ret.infinityStates : call.ret.result[s] = constGetInfinity

(***************************************************************************)
(* The step-bounded reward solvers.                                        *)
(***************************************************************************)
CumulativeReturned == call.op = "checkCumulativeReward" /\ call.ret.status = "returned"

\* the increment of row r: the sum over its successors of probability times
\* transition reward (0 without transition rewards) plus the reward of the
\* state that owns the row (0 without state rewards)
StepReward(r) ==
    LET row == model.transitionMatrix[r]
        succ == SetToSeq({t \in ModelStates : row[t] > 0})
    IN  RAdd(IF model.transitionRewardMatrix # <<>>
             THEN SumSeq([j \in 1 .. Len(succ) |->
                      RMul(Rat(row[succ[j]], Den),
                           Rat(model.transitionRewardMatrix[1][r][succ[j]], 1))])
             ELSE constGetZero,
             IF model.stateRewardVector # <<>>
             THEN model.stateRewardVector[1][OwnerOf(r)]
             ELSE constGetZero)

\* C24: when checkCumulativeReward returns, it has performed one
\* multiplication of `bound' sweeps in the direction on top of the stack, and
\* the increment handed to it has one entry per action row of the transition
\* matrix, the entry of a row being its transition-reward row sum plus the
\* reward of the state owning the row, also when a state has several actions
C24_CumulativeIncrementPerRow ==
    CumulativeReturned =>
        /\ Len(call.ret.events) = 1
        /\ \E e \in {call.ret.events[1]} :
              /\ e.kind = "performMatrixVectorMultiplication"
              /\ e.n = call.bound
              /\ e.minimize = call.top
              /\ Len(e.b) = Len(model.transitionMatrix)
              /\ \A r \in 1 .. Len(e.b) : e.b[r] = StepReward(r)

InstantaneousCalled == call.op = "checkInstantaneousReward"

\* one sweep of one-step lookahead written on the states of the model: every
\* state takes the extremal value over its rows of the row's product with v
LookaheadSweep(minimize, v) ==
    [s \in ModelStates |->
        LET values ==
               {LET cols == SetToSeq(Successors(model.transitionMatrix[r]))
                IN  SumSeq([c \in 1 .. Len(cols) |->
                        RMul(Entry(model.transitionMatrix[r], cols[c]), v[cols[c]])]) :
                   r \in RowGroup(model.nondeterministicChoiceIndices, s)}
        IN  IF minimize THEN RMin(values) ELSE RMax(values)]

RECURSIVE LookaheadSweeps(_, _, _)
LookaheadSweeps(minimize, v, n) ==
    IF n = 0 THEN v ELSE LookaheadSweeps(minimize, LookaheadSweep(minimize, v), n - 1)

\* C25: on a model without state rewards checkInstantaneousReward throws
\* the missing-reward-model exception before any sweep, also when the model
\* has transition rewards; otherwise, when it returns, it has performed one
\* multiplication of `bound' sweeps without an added vector, and its result
\* is the state reward vector after `bound' sweeps of extremal one-step
\* lookahead over the whole transition matrix (the vector itself for bound 0)
C25_InstantaneousIsBoundSweeps ==
    InstantaneousCalled =>
        IF model.stateRewardVector = <<>>
        THEN /\ call.ret.status = "thrown"
             /\ call.ret.exception = "InvalidPropertyException"
             /\ call.ret.events = <<>>
        ELSE /\ call.ret.status # "thrown"
             /\ call.ret.status = "returned" =>
                   /\ Len(call.ret.events) = 1
                   /\ call.ret.events[1].kind = "performMatrixVectorMultiplication"
                   /\ call.ret.events[1].n = call.bound
                   /\ call.ret.events[1].b = <<>>
                   /\ call.ret.events[1].minimize = call.top
                   /\ call.ret.result =
                         LookaheadSweeps(call.top, model.stateRewardVector[1], call.bound)
                   /\ call.bound = 0 => call.ret.result = model.stateRewardVector[1]

\* a minimising call with the largest bound on a model with state rewards in
\* which state 0 has two actions, and whose result differs from the state
\* reward vector at state 0
C25_Witness ==
    /\ InstantaneousCalled /\ call.ret.status = "returned"
    /\ call.top /\ call.bound = MaxStepBound
    /\ Cardinality(RowGroup(model.nondeterministicChoiceIndices, 0)) = 2
    /\ call.ret.result[0] # model.stateRewardVector[1][0]
    /\ RLess(constGetZero, call.ret.result[0])

(***************************************************************************)
(* The globally formula below an optimality operator.                      *)
(***************************************************************************)
\* storm::utility::vector::subtractFromConstantOneVector: every entry v
\* becomes 1 - v
subtractFromConstantOneVector(vector) ==
    [s \in DOMAIN vector |-> RSub(constGetOne, vector[s])]

\* checkGlobally(formula, qualitative) on model m, the child of the formula
\* holding in childStates: checkEventually on the negated child, which is
\* checkUntil on true and the negated child under the direction top() yields,
\* then the subtraction from one
checkGlobally(m, top, childStates, qualitative) ==
    LET allStates == StatesOf(m.nondeterministicChoiceIndices)
        ret == computeUnboundedUntilProbabilities(top, m.transitionMatrix,
                   m.nondeterministicChoiceIndices, m.initialStates,
                   allStates, allStates \ childStates, qualitative)
    IN  [ret EXCEPT !.result = subtractFromConstantOneVector(ret.result)]

\* checkNoBoundOperator on an operator with a direction over a globally
\* formula whose child holds in childStates: the direction is pushed,
\* checkUntil reads it with top(), and it is popped
CallGlobally ==
    /\ call = Idle
    /\ \E minimum \in BOOLEAN, qualitative \in BOOLEAN, childStates \in SUBSET ModelStates :
          \E ret \in {checkGlobally(model, minimum, childStates, qualitative)} :
              call' = [op |-> "checkGlobally", top |-> minimum,
                       childStates |-> childStates, qualitative |-> qualitative, ret |-> ret]
    /\ UNCHANGED <<model, minimumOperatorStack, frames, events, history>>

NextGlobally == CallGlobally \/ Reset

SpecGlobally == Init /\ [][NextGlobally]_vars

\* the probability that the child holds globally, per state, under each
\* memoryless scheduler: one minus the probability to reach a state in
\* which the child does not hold
GloballyValues ==
    {[s \in ModelStates |-> RSub(constGetOne, v[s])] :
        v \in SchedulerValues(model.transitionMatrix, model.nondeterministicChoiceIndices,
                              ModelStates, ModelStates \ call.childStates)}

\* C27: when checkGlobally has computed numbers, the value of every state is
\* the minimal probability over the schedulers that the child holds
\* globally when the top of the stack is true (minimum), and the maximal one
\* when it is false
C27_GloballyIsExtremalUnderTop ==
    (call.op = "checkGlobally" /\ SolverInvoked) =>
        \E values \in {GloballyValues} :
            \A s \in ModelStates :
                call.ret.result[s] =
                    IF call.top THEN RMin({v[s] : v \in values})
                    ELSE RMax({v[s] : v \in values})

(***************************************************************************)
(* The dispatcher AbstractModelChecker::check over boolean state formulas. *)
(* A formula that a derived checker resolves is a leaf that carries the    *)
(* outcome of its check: a qualitative result (the states in which it      *)
(* holds), a quantitative result, or an exception.                         *)
(***************************************************************************)
Qualitative(truth) == [status |-> "returned", kind |-> "qualitative", truth |-> truth]

Quantitative == [status |-> "returned", kind |-> "quantitative"]

isQualitative(result) == result.kind = "qualitative"

\* the formulas resolved by a derived checker: state formulas (labels and
\* operators with a bound yield a qualitative result, operators without a
\* bound a quantitative one) and path formulas; either may be unsupported
LeafFormulas(states) ==
    {[type |-> "Leaf", isStateFormula |-> TRUE, outcome |-> o] :
        o \in {Qualitative(truth) : truth \in SUBSET states}
                \cup {Quantitative, Thrown("NotImplementedException", <<>>)}}
    \cup {[type |-> "Leaf", isStateFormula |-> FALSE, outcome |-> o] :
             o \in {Quantitative, Thrown("NotImplementedException", <<>>)}}

UnaryFormulas(subformulas) ==
    {[type |-> "UnaryBooleanStateFormula", operator |-> op, subformula |-> f] :
        op \in {"Not", "Other"}, f \in subformulas}

BinaryFormulas(subformulas) ==
    {[type |-> "BinaryBooleanStateFormula", operator |-> op, left |-> l, right |-> r] :
        op \in {"And", "Or", "Other"}, l \in subformulas, r \in subformulas}

\* the formulas handed to check: boolean formulas of depth at most 2
BooleanFormulas(states) ==
    LET leaves == LeafFormulas(states)
        unary == UnaryFormulas(leaves)
    IN  UnaryFormulas(leaves \cup unary \cup BinaryFormulas(leaves))
          \cup BinaryFormulas(leaves \cup unary)

isStateFormula(formula) == formula.type # "Leaf" \/ formula.isStateFormula

RECURSIVE check(_)

\* checkUnaryBooleanStateFormula without the test of the sub-result's type
checkUnaryBooleanStateFormulaUntyped(stateFormula) ==
    LET subResult == check(stateFormula.subformula)
    IN  IF subResult.status = "thrown" THEN subResult
        ELSE IF stateFormula.operator = "Not"
        THEN IF isQualitative(subResult)
             THEN Qualitative(ModelStates \ subResult.truth)
             ELSE subResult
        ELSE Thrown("InvalidArgumentException", <<>>)

\* AbstractModelChecker::checkUnaryBooleanStateFormula
checkUnaryBooleanStateFormula(stateFormula) ==
    LET subResult == check(stateFormula.subformula)
    IN  IF subResult.status = "thrown" THEN subResult
        ELSE IF ~isQualitative(subResult) THEN Thrown("InternalTypeErrorException", <<>>)
        ELSE IF stateFormula.operator = "Not"
        THEN Qualitative(ModelStates \ subResult.truth)
        ELSE Thrown("InvalidArgumentException", <<>>)

\* AbstractModelChecker::checkBinaryBooleanStateFormula
checkBinaryBooleanStateFormula(stateFormula) ==
    IF ~(isStateFormula(stateFormula.left) /\ isStateFormula(stateFormula.right))
    THEN Thrown("InvalidArgumentException", <<>>)
    ELSE LET leftResult == check(stateFormula.left)
         IN  IF leftResult.status = "thrown" THEN leftResult
             ELSE LET rightResult == check(stateFormula.right)
                  IN  IF rightResult.status = "thrown" THEN rightResult
                      ELSE IF ~(isQualitative(leftResult) /\ isQualitative(rightResult))
                      THEN Thrown("InternalTypeErrorException", <<>>)
                      ELSE IF stateFormula.operator = "And"
                      THEN Qualitative(leftResult.truth \cap rightResult.truth)
                      ELSE IF stateFormula.operator = "Or"
                      THEN Qualitative(leftResult.truth \cup rightResult.truth)
                      ELSE Thrown("InvalidArgumentException", <<>>)

\* AbstractModelChecker::check and checkStateFormula on a formula the
\* checker can handle
check(formula) ==
    IF formula.type = "BinaryBooleanStateFormula" THEN checkBinaryBooleanStateFormula(formula)
    ELSE IF formula.type = "UnaryBooleanStateFormula" THEN checkUnaryBooleanStateFormula(formula)
    ELSE formula.outcome

InitBoolean ==
    /\ model = PlainModel(TwoStateMdp, {0})
    /\ minimumOperatorStack = <<>>
    /\ call = Idle
    /\ frames = <<>>
    /\ events = <<>>
    /\ history = <<>>

\* a caller invokes check(checkTask) on a boolean state formula
CallCheck ==
    /\ call = Idle
    /\ \E formula \in BooleanFormulas(ModelStates) :
          call' = [op |-> "check", formula |-> formula, ret |-> check(formula)]
    /\ UNCHANGED <<model, minimumOperatorStack, frames, events, history>>

NextBoolean == CallCheck \/ Reset

SpecBoolean == InitBoolean /\ [][NextBoolean]_vars

\* C28: a unary or binary boolean state formula whose sub-formulas have
\* yielded results fails with InternalTypeErrorException when one of the
\* sub-results is not qualitative; otherwise it returns the state-wise
\* conjunction (And), disjunction (Or) or complement (Not) of the
\* sub-results, or fails with InvalidArgumentException when the operator is
\* none of these; a failing check returns no result
C28_BooleanFormulasTyped ==
    call.op = "check" =>
        /\ call.ret.status = "thrown" => "truth" \notin DOMAIN call.ret
        /\ call.formula.type = "UnaryBooleanStateFormula" =>
              \E sub \in {check(call.formula.subformula)} :
                 sub.status = "returned" =>
                    IF ~isQualitative(sub)
                    THEN call.ret = Thrown("InternalTypeErrorException", <<>>)
                    ELSE IF call.formula.operator = "Not"
                    THEN call.ret = Qualitative(ModelStates \ sub.truth)
                    ELSE call.ret = Thrown("InvalidArgumentException", <<>>)
        /\ call.formula.type = "BinaryBooleanStateFormula" =>
              \E l \in {check(call.formula.left)}, r \in {check(call.formula.right)} :
                 (/\ isStateFormula(call.formula.left) /\ isStateFormula(call.formula.right)
                  /\ l.status = "returned" /\ r.status = "returned") =>
                    IF ~(isQualitative(l) /\ isQualitative(r))
                    THEN call.ret = Thrown("InternalTypeErrorException", <<>>)
                    ELSE IF call.formula.operator = "And"
                    THEN call.ret = Qualitative({s \in ModelStates : s \in l.truth /\ s \in r.truth})
                    ELSE IF call.formula.operator = "Or"
                    THEN call.ret = Qualitative({s \in ModelStates : s \in l.truth \/ s \in r.truth})
                    ELSE call.ret = Thrown("InvalidArgumentException", <<>>)

\* a conjunction of a negation and a label that holds in exactly one of the
\* two states in which its right operand holds
C28_Witness ==
    /\ call.op = "check"
    /\ call.formula.type = "BinaryBooleanStateFormula"
    /\ call.formula.operator = "And"
    /\ call.formula.left.type = "UnaryBooleanStateFormula"
    /\ call.formula.left.operator = "Not"
    /\ call.ret.status = "returned"
    /\ Cardinality(call.ret.truth) = 1
    /\ Cardinality(check(call.formula.right).truth) = 2

(***************************************************************************)
(* SparseMdpPcaaWeightVectorChecker::boundedPhaseOnlyStepBounds.  The      *)
(* activation is kept in `call': the objectives, the map stepBounds (its   *)
(* keys in decreasing order), the position of stepBoundIt in it,           *)
(* currentEpoch, consideredObjectives, and per objective the epochs in     *)
(* which its action rewards were added to weightedRewardVector and the     *)
(* epochs in which its objectiveResult was updated.                        *)
(***************************************************************************)
\* the values of uint_fast64_t
WordModulus == 2 ^ WordBits

\* the objectives of the checker: reward operators over a cumulative reward
\* formula with a step bound that is strict or not, or over a total reward
\* formula
Objectives ==
    {[cumulative |-> TRUE, bound |-> b, strict |-> st] :
        b \in 0 .. MaxStepBound, st \in BOOLEAN}
    \cup {[cumulative |-> FALSE, bound |-> 0, strict |-> FALSE]}

\* the step bound under which an objective is entered into stepBounds:
\* "if (subformula.isBoundStrict()) --stepBound" on a uint_fast64_t
stepBoundOf(objective) ==
    IF objective.strict THEN (objective.bound + WordModulus - 1) % WordModulus
    ELSE objective.bound

RECURSIVE Decreasing(_)
\* the elements of a set of numbers in decreasing order (std::greater)
Decreasing(S) ==
    IF S = {} THEN <<>>
    ELSE LET m == CHOOSE x \in S : \A y \in S : y <= x
         IN  <<m>> \o Decreasing(S \ {m})

\* the keys of the map stepBounds
stepBoundsOf(objectives) ==
    Decreasing({stepBoundOf(objectives[i]) :
                  i \in {j \in 1 .. Len(objectives) : objectives[j].cumulative}})

\* boundedPhaseOnlyStepBounds is entered: the map is filled, and the loop is
\* about to test currentEpoch > 0
CallBoundedPhaseOnlyStepBounds ==
    /\ call = Idle
    /\ \E n \in 1 .. MaxObjectives : \E objectives \in [1 .. n -> Objectives] :
          \E stepBounds \in {stepBoundsOf(objectives)} :
              call' = [op |-> "boundedPhaseOnlyStepBounds",
                       pc |-> "while",
                       objectives |-> objectives,
                       stepBounds |-> stepBounds,
                       stepBoundIt |-> 1,
                       currentEpoch |-> IF stepBounds = <<>> THEN 0 ELSE stepBounds[1],
                       consideredObjectives |->
                           {i \in 1 .. n : ~objectives[i].cumulative},
                       added |-> [i \in 1 .. n |-> <<>>],
                       updated |-> [i \in 1 .. n |-> <<>>],
                       iterations |-> 0]
    /\ UNCHANGED <<model, minimumOperatorStack, frames, events, history>>

\* one iteration of "while (currentEpoch > 0)"
EpochStep ==
    /\ call.op = "boundedPhaseOnlyStepBounds"
    /\ call.pc = "while"
    /\ call.currentEpoch > 0
    /\ LET atBound == /\ call.stepBoundIt <= Len(call.stepBounds)
                       /\ call.currentEpoch = call.stepBounds[call.stepBoundIt]
           entering == IF atBound
                       THEN {i \in 1 .. Len(call.objectives) :
                               /\ call.objectives[i].cumulative
                               /\ stepBoundOf(call.objectives[i]) = call.currentEpoch}
                       ELSE {}
           considered == call.consideredObjectives \cup entering
       IN  call' = [call EXCEPT
                       !.consideredObjectives = considered,
                       !.added = [i \in DOMAIN call.added |->
                                     IF i \in entering
                                     THEN Append(call.added[i], call.currentEpoch)
                                     ELSE call.added[i]],
                       !.stepBoundIt = IF atBound THEN call.stepBoundIt + 1
                                       ELSE call.stepBoundIt,
                       !.updated = [i \in DOMAIN call.updated |->
                                       IF i \in considered
                                       THEN Append(call.updated[i], call.currentEpoch)
                                       ELSE call.updated[i]],
                       !.currentEpoch = call.currentEpoch - 1,
                       !.iterations = call.iterations + 1]
    /\ UNCHANGED <<model, minimumOperatorStack, frames, events, history>>

\* the loop condition fails and boundedPhaseOnlyStepBounds returns
EpochsEnd ==
    /\ call.op = "boundedPhaseOnlyStepBounds"
    /\ call.pc = "while"
    /\ call.currentEpoch = 0
    /\ call' = [call EXCEPT !.pc = "returned"]
    /\ UNCHANGED <<model, minimumOperatorStack, frames, events, history>>

NextEpochs == CallBoundedPhaseOnlyStepBounds \/ EpochStep \/ EpochsEnd \/ Reset

SpecEpochs == InitBoolean /\ [][NextEpochs]_vars

\* the epochs k, k-1, ..., 1
EpochsFrom(k) == [i \in 1 .. k |-> k + 1 - i]

\* the number of epochs from k down to 1
EpochsBelow(k) == IF k >= 1 THEN k ELSE 0

\* the bound a strict bound b stands for: the non-strict bound b - 1
EffectiveBound(objective) ==
    IF objective.strict THEN objective.bound - 1 ELSE objective.bound

\* C29: when boundedPhaseOnlyStepBounds has returned, the loop has run once
\* per epoch from the largest effective step bound down to 1 (not at all if
\* that bound is below 1), and an objective with effective step bound k (a
\* strict bound b counting as b - 1, for every b from 0 on) has had its
\* result updated in exactly the epochs k, k-1, ..., 1 and, if k is the
\* number of an epoch, its action rewards added exactly once, at epoch k
C29_EpochsRunDownFromLargestBound ==
    (call.op = "boundedPhaseOnlyStepBounds" /\ call.pc = "returned") =>
        \E bounded \in {{i \in 1 .. Len(call.objectives) : call.objectives[i].cumulative}} :
            /\ \A i \in bounded :
                  /\ EffectiveBound(call.objectives[i]) >= 1
                        => call.added[i] = <<EffectiveBound(call.objectives[i])>>
                  /\ call.updated[i] = EpochsFrom(EffectiveBound(call.objectives[i]))
            /\ \A i \in bounded :
                  (\A j \in bounded : EffectiveBound(call.objectives[j])
                                          <= EffectiveBound(call.objectives[i]))
                      => call.iterations = EpochsBelow(EffectiveBound(call.objectives[i]))

(***************************************************************************)
(* storm::storage::DFTBuilder.  In this part `model' holds the builder:    *)
(* mNextId, mElements (a map from names to elements), mChildNames (the     *)
(* pairs of an element and its child names) and mDependencies; `call'      *)
(* holds the last add operation, its arguments, the value it returned and  *)
(* the builder it was called on.  An element is its id, its name and its   *)
(* type.                                                                   *)
(***************************************************************************)
\* DFTBuilder(): mNextId = 0 and empty containers
EmptyBuilder ==
    [mNextId |-> 0, mElements |-> <<>>, mChildNames |-> {}, mDependencies |-> <<>>]

\* the names add operations are called with
ElementNames == {"a", "a_1", "a_2"}

\* the child lists add operations are called with
ChildLists ==
    {[i \in 1 .. n |-> <<"b", "c", "d", "e", "f", "g", "h", "i", "j">>[i]] :
        n \in 1 .. MaxChildren}

\* the probabilities of a dependency
Probabilities == {constGetZero, SentinelHalf, constGetOne}

\* std::to_string(i)
to_string(i) == <<"1", "2", "3", "4", "5", "6", "7", "8", "9">>[i]

\* mElements.count(name)
count(builder, name) == IF name \in DOMAIN builder.mElements THEN 1 ELSE 0

\* mElements[name] = element
Store(builder, element) ==
    [builder EXCEPT !.mElements = (element.name :> element) @@ builder.mElements]

RECURSIVE addDepElementLoop(_, _, _, _)
\* the loop of addDepElement from index i on
addDepElementLoop(builder, name, children, i) ==
    IF i >= Len(children) THEN [builder |-> builder, returned |-> TRUE]
    ELSE LET nameDep == name \o "_" \o to_string(i)
         IN  IF count(builder, nameDep) # 0
             THEN [builder |-> builder, returned |-> FALSE]
             ELSE LET element == [id |-> builder.mNextId, name |-> nameDep, type |-> "PDEP"]
                      stored == Store([builder EXCEPT !.mNextId = @ + 1], element)
                  IN  addDepElementLoop(
                          [stored EXCEPT !.mDependencies = Append(@, element)],
                          name, children, i + 1)

\* DFTBuilder::addDepElement(name, children, probability); children[0] is
\* the trigger
addDepElement(builder, name, children, probability) ==
    IF count(builder, name) # 0 THEN [builder |-> builder, returned |-> FALSE]
    ELSE IF probability = constGetZero THEN [builder |-> builder, returned |-> TRUE]
    ELSE IF probability # constGetOne /\ Len(children) > 2
    THEN [builder |-> builder, returned |-> FALSE]
    ELSE addDepElementLoop(builder, name, children, 1)

\* DFTBuilder::addStandardGate(name, children, tp)
addStandardGate(builder, name, children, tp) ==
    IF count(builder, name) # 0 THEN [builder |-> builder, returned |-> FALSE]
    ELSE LET element == [id |-> builder.mNextId, name |-> name, type |-> tp]
             stored == Store([builder EXCEPT !.mNextId = @ + 1], element)
         IN  [builder |-> [stored EXCEPT !.mChildNames =
                              @ \cup {[element |-> element, children |-> children]}],
              returned |-> TRUE]

\* DFTBuilder::addVotElement(name, threshold, children)
addVotElement(builder, name, threshold, children) ==
    IF count(builder, name) # 0 THEN [builder |-> builder, returned |-> FALSE]
    ELSE IF Len(children) = threshold THEN addStandardGate(builder, name, children, "AND")
    ELSE IF threshold = 1 THEN addStandardGate(builder, name, children, "OR")
    ELSE IF threshold > Len(children) THEN [builder |-> builder, returned |-> FALSE]
    ELSE LET element == [id |-> builder.mNextId, name |-> name, type |-> "VOT"]
             stored == Store([builder EXCEPT !.mNextId = @ + 1], element)
         IN  [builder |-> [stored EXCEPT !.mChildNames =
                              @ \cup {[element |-> element, children |-> children]}],
              returned |-> TRUE]

\* DFTBuilder::addBasicElement(name, failureRate, dormancyFactor)
addBasicElement(builder, name) ==
    [builder |-> Store([builder EXCEPT !.mNextId = @ + 1],
                       [id |-> builder.mNextId, name |-> name, type |-> "BE"]),
     returned |-> TRUE]

InitBuilder ==
    /\ model = EmptyBuilder
    /\ minimumOperatorStack = <<>>
    /\ call = Idle
    /\ frames = <<>>
    /\ events = <<>>
    /\ history = <<>>

\* a caller runs addDepElement on the builder
CallAddDepElement ==
    \E name \in ElementNames, children \in ChildLists, probability \in Probabilities :
        \E outcome \in {addDepElement(model, name, children, probability)} :
            /\ outcome.builder.mNextId <= MaxIds
            /\ model' = outcome.builder
            /\ call' = [op |-> "addDepElement", name |-> name, children |-> children,
                        returned |-> outcome.returned, before |-> model]
            /\ UNCHANGED <<minimumOperatorStack, frames, events, history>>

\* a caller runs addVotElement on the builder
CallAddVotElement ==
    \E name \in ElementNames, children \in ChildLists, threshold \in 0 .. MaxChildren + 1 :
        \E outcome \in {addVotElement(model, name, threshold, children)} :
            /\ outcome.builder.mNextId <= MaxIds
            /\ model' = outcome.builder
            /\ call' = [op |-> "addVotElement", name |-> name, children |-> children,
                        returned |-> outcome.returned, before |-> model]
            /\ UNCHANGED <<minimumOperatorStack, frames, events, history>>

\* a caller runs addBasicElement on the builder
CallAddBasicElement ==
    \E name \in ElementNames :
        \E outcome \in {addBasicElement(model, name)} :
            /\ outcome.builder.mNextId <= MaxIds
            /\ model' = outcome.builder
            /\ call' = [op |-> "addBasicElement", name |-> name, children |-> <<>>,
                        returned |-> outcome.returned, before |-> model]
            /\ UNCHANGED <<minimumOperatorStack, frames, events, history>>

NextBuilder == CallAddDepElement \/ CallAddVotElement \/ CallAddBasicElement

SpecBuilder == InitBuilder /\ [][NextBuilder]_vars

\* an add operation has returned
AddReturned == call # Idle /\ call.op \in {"addDepElement", "addVotElement", "addBasicElement"}

\* the names name_1, name_2, ... of the dependencies of a call of
\* addDepElement, one per dependent child
DependencyNames ==
    {call.name \o "_" \o to_string(i) : i \in 1 .. Len(call.children) - 1}

\* the names registered by the last add operation
NewNames == DOMAIN model.mElements \ DOMAIN call.before.mElements

\* an add operation that returned false left the builder as it was
FailedAddLeavesBuilderUnchanged ==
    (AddReturned /\ ~call.returned) => model = call.before

\* the elements of mElements have distinct ids, and each is stored under its
\* own name
StoredElementsDistinct ==
    AddReturned =>
        \A n1 \in DOMAIN model.mElements :
            /\ model.mElements[n1].name = n1
            /\ \A n2 \in DOMAIN model.mElements :
                  model.mElements[n1].id = model.mElements[n2].id => n1 = n2

\* addDepElement registered all of its dependencies or none
DependenciesAllOrNone ==
    (AddReturned /\ call.op = "addDepElement") =>
        (NewNames = {} \/ NewNames = DependencyNames)

\* the element stored under the name of the add operation before the call
\* is still the element stored under it
UsedNameNotReplaced ==
    (AddReturned /\ call.name \in DOMAIN call.before.mElements) =>
        model.mElements[call.name] = call.before.mElements[call.name]

\* C30: an add operation of DFTBuilder that returns false leaves the builder
\* unchanged, the stored elements have distinct ids and distinct names,
\* addDepElement registers all of its name_i dependencies or none, and an
\* add under a used name does not replace the element stored under it
C30_FailedAddLeavesBuilderUnchanged ==
    /\ FailedAddLeavesBuilderUnchanged
    /\ StoredElementsDistinct
    /\ DependenciesAllOrNone
    /\ UsedNameNotReplaced

====
